---------------------------- MODULE Spec2Model ----------------------------
(***************************************************************************)
(* Route-safety optimisation engine of women-safety-app                    *)
(* (app/routes.py api_optimize_route, app.py optimize_route,               *)
(* app/safety/guardrails.py, app/ml/inference.py).                         *)
(*                                                                         *)
(* Number representation.  TLA+ has integers only, so every float of the   *)
(* source is held in a fixed unit:                                         *)
(*   coordinates        1e-5 degree   (12.95 deg  = 1295000)               *)
(*   distances          metre         (0.5 km     = 500)                   *)
(*   scores, percents   1/100         (100.0      = 10000)                 *)
(*   composite score    1e-6                                               *)
(*   durations          second; the clock is minutes since midnight        *)
(* haversine_distance is evaluated on the local tangent plane of the       *)
(* service box (1 deg lat = 111.2 km, 1 deg lon = 108.4 km at 12.95 N).    *)
(***************************************************************************)
EXTENDS Integers, Sequences, FiniteSets, TLC

--------------------------------------------------------------------------
(* Arithmetic helpers *)

Abs(x) == IF x < 0 THEN -x ELSE x

Min(a, b) == IF a <= b THEN a ELSE b

Max(a, b) == IF a >= b THEN a ELSE b

\* np.clip(x, lo, hi)
Clip(x, lo, hi) == Max(lo, Min(hi, x))

RECURSIVE SqrtIter(_, _, _)
SqrtIter(n, lo, hi) ==
    IF lo >= hi THEN lo
    ELSE LET mid == (lo + hi + 1) \div 2
         IN  IF mid * mid <= n THEN SqrtIter(n, mid, hi) ELSE SqrtIter(n, lo, mid - 1)

\* math.sqrt on non-negative integers, rounded down
ISqrt(n) == SqrtIter(n, 0, 46340)

RECURSIVE SumSeq(_)
SumSeq(s) == IF s = << >> THEN 0 ELSE Head(s) + SumSeq(Tail(s))

\* Python's s[::step]
Stride(s, step) ==
    [j \in 1..((Len(s) + step - 1) \div step) |-> s[(j - 1) * step + 1]]

\* the elements of a sequence that satisfy a test, in order
RECURSIVE SelectIdx(_, _)
SelectIdx(s, keep) ==
    IF s = << >> THEN << >>
    ELSE IF Head(s) \in keep THEN <<Head(s)>> \o SelectIdx(Tail(s), keep)
    ELSE SelectIdx(Tail(s), keep)

--------------------------------------------------------------------------
(* CoordinateValidator / DistanceCalculator *)

\* A value as it arrives in the request JSON: absent, present but not
\* convertible by float(), or a number
Missing == [kind |-> "missing", val |-> 0]

Unparseable == [kind |-> "text", val |-> 0]

Num(v) == [kind |-> "num", val |-> v]

\* BANGALORE_BOUNDS, the closed box, on the 1e-5 degree grid
BoundsMinLat == 1270420

BoundsMaxLat == 1317370

BoundsMinLon == 7726988

BoundsMaxLon == 7785006

\* a variant that forgets the longitude range
validate_latitude_only(lat, lon) ==
    /\ lat.kind = "num"
    /\ lon.kind = "num"
    /\ BoundsMinLat <= lat.val /\ lat.val <= BoundsMaxLat

\* validate_coordinates(lat, lon): a float() failure returns False
validate_coordinates(lat, lon) ==
    /\ lat.kind = "num"
    /\ lon.kind = "num"
    /\ BoundsMinLat <= lat.val /\ lat.val <= BoundsMaxLat
    /\ BoundsMinLon <= lon.val /\ lon.val <= BoundsMaxLon

\* metres per 1e-5 degree, times 1000
MetresPerLatUnit == 1112

MetresPerLonUnit == 1084

\* haversine_distance(lat1, lon1, lat2, lon2) in metres
haversine_distance(lat1, lon1, lat2, lon2) ==
    LET dy == (Abs(lat2 - lat1) * MetresPerLatUnit) \div 1000
        dx == (Abs(lon2 - lon1) * MetresPerLonUnit) \div 1000
    IN  ISqrt(dx * dx + dy * dy)

--------------------------------------------------------------------------
(* RouteFingerprint *)

\* f"{x:.4f}": a 1e-5 degree value rounded to 4 decimals
Round4(x) == (x + 5) \div 10

\* calculate_route_hash(route): None for fewer than 2 points, else the digest
\* of the five formatted sample points (the digest is taken as injective)
NoHash == << >>

calculate_route_hash(route) ==
    IF Len(route) < 2 THEN NoHash
    ELSE LET n == Len(route)
             sample_indices == <<0, n \div 4, n \div 2, (3 * n) \div 4, n - 1>>
         IN  [j \in 1..5 |-> <<Round4(route[sample_indices[j] + 1][1]),
                               Round4(route[sample_indices[j] + 1][2])>>]

--------------------------------------------------------------------------
(* RouteValidator *)

\* max_gap_km = 0.5 at both call sites
MaxGapM == 500

\* a variant that only counts the points
validate_point_count(route_points, max_gap) == Len(route_points) >= 2

\* validate_route_connectivity(route_points, max_gap_km)
validate_route_connectivity(route_points, max_gap) ==
    /\ Len(route_points) >= 2
    /\ \A i \in 1..(Len(route_points) - 1) :
          haversine_distance(route_points[i][1], route_points[i][2],
                             route_points[i + 1][1], route_points[i + 1][2]) <= max_gap

\* sum of the consecutive-point distances of a polyline
PathLength(route_points) ==
    SumSeq([i \in 1..(Len(route_points) - 1) |->
              haversine_distance(route_points[i][1], route_points[i][2],
                                 route_points[i + 1][1], route_points[i + 1][2])])

\* range(0, stop, step) for step >= 1, as a sequence
PyRange(stop, step) ==
    IF stop <= 0 THEN << >>
    ELSE [j \in 1..((stop + step - 1) \div step) |-> (j - 1) * step]

\* step = max(1, len(route_points) // sample_size), sample_size = min(20, len)
SampleStep(n) == Max(1, n \div Min(20, n))

\* range(0, len(route_points) - step, step)
SampleRange(n) == PyRange(n - SampleStep(n), SampleStep(n))

\* the iterations of the progress loop that reach its body
SampleIterations(n) ==
    {j \in 1..Len(SampleRange(n)) : SampleRange(n)[j] + SampleStep(n) < n}

\* detect_route_backtracking(route_points, start, end): TRUE = efficient
detect_route_backtracking(route_points, start_lat, start_lon, end_lat, end_lon) ==
    LET n == Len(route_points)
        direct_distance == haversine_distance(start_lat, start_lon, end_lat, end_lon)
        actual_distance == PathLength(route_points)
        step == SampleStep(n)
        idxs == SampleRange(n)
        used == SampleIterations(n)
        progress(j) ==
            haversine_distance(route_points[idxs[j] + 1][1], route_points[idxs[j] + 1][2],
                               end_lat, end_lon)
            - haversine_distance(route_points[idxs[j] + step + 1][1],
                                 route_points[idxs[j] + step + 1][2], end_lat, end_lon)
        backtrack_count == Cardinality({j \in used : progress(j) < 0})
        stagnant_count == Cardinality({j \in used : progress(j) >= 0 /\ progress(j) < 10})
        total_segments == Len(idxs)
        probe == Stride(route_points, Max(1, n \div 10))
        d_start(p) == haversine_distance(start_lat, start_lon, p[1], p[2])
        d_end(p) == haversine_distance(p[1], p[2], end_lat, end_lon)
        far == {j \in 1..Len(probe) :
                   /\ 10 * d_start(probe[j]) > 7 * direct_distance
                   /\ 10 * d_end(probe[j]) > 7 * direct_distance}
    IN  IF n < 5 THEN TRUE
        ELSE IF direct_distance < 100 THEN TRUE
        ELSE IF 10 * actual_distance > 13 * direct_distance THEN FALSE
        ELSE IF 10 * backtrack_count > 2 * total_segments THEN FALSE
        ELSE IF 10 * (backtrack_count + stagnant_count) > 4 * total_segments THEN FALSE
        ELSE \A j \in far :
                10 * Min(d_start(probe[j]), d_end(probe[j])) <= 3 * direct_distance

--------------------------------------------------------------------------
(* SpatialDataset: the three module-level tables, loaded once at import.    *)
(* A world is one possible content of the three tables.  A crime row is     *)
(* <<lat, lon, rows>> (rows = number of incidents recorded at that place);  *)
(* a lighting row is <<lat, lon, lighting_score, rows>>; a population row   *)
(* is <<lat, lon, population_density, traffic_level, is_main_road,          *)
(* population>>.                                                            *)

\* World 1: the tables are empty.  World 2: a populated neighbourhood
\* around the corridor lat 12.95, lon 77.58 .. 77.62.  World 3: the same
\* rows, and the population table also has a 'population' column.
Worlds == {1, 2, 3}

\* Injected worlds: the lighting and population rows of world 2, and a crime
\* table with two places on the corridor, (12.95, 77.588) and
\* (12.95, 77.608); world 100 + 10 a + b records InjectedCounts[a + 1]
\* incidents at the first and InjectedCounts[b + 1] at the second
InjectedCounts == <<0, 4, 70>>

InjectedWorlds == {100 + 10 * a + b : a, b \in 0..(Len(InjectedCounts) - 1)}

InjectedFirst(w) == InjectedCounts[((w - 100) \div 10) + 1]

InjectedSecond(w) == InjectedCounts[((w - 100) % 10) + 1]

crime_data(w) ==
    IF w = 1 THEN {}
    ELSE IF w \in InjectedWorlds
    THEN { <<1295000, 7758800, InjectedFirst(w)>>, <<1295000, 7760800, InjectedSecond(w)>> }
    ELSE { <<1295000, 7760000, 2>>, <<1295400, 7760000, 5>>,
           <<1294600, 7760000, 25>>, <<1295000, 7758050, 1>> }

lighting_data(w) ==
    IF w = 1 THEN {}
    ELSE { <<1295000, 7758000 + 800 * j, 800, 2>> : j \in 0..5 }
         \cup { <<1295400, 7760000, 200, 1>> }

population_data(w) ==
    IF w = 1 THEN {}
    ELSE { <<1295000, 7758000 + 800 * j, 8000, 60, 1, 120>> : j \in 0..5 }
         \cup { <<1295400, 7760000, 300, 20, 0, 30>>,
                <<1295450, 7760400, 200, 10, 0, 20>>,
                <<1294600, 7760000, 2500, 90, 0, 40>> }

\* whether the population table carries the 'population' column that
\* check_isolated_areas reads (the loaders only name population_density)
HasPopulationColumn(w) == w = 3

RECURSIVE SumOver(_, _)
\* sum of field k over a finite set of rows
SumOver(rows, k) ==
    IF rows = {} THEN 0
    ELSE LET r == CHOOSE x \in rows : TRUE
         IN  r[k] + SumOver(rows \ {r}, k)

\* the rows of a table inside the open box of half-width radius around a point
Nearby(rows, lat, lon, radius) ==
    {r \in rows : Abs(r[1] - lat) < radius /\ Abs(r[2] - lon) < radius}

\* calculate_crime_exposure(lat, lon, radius): number of incidents in the box
calculate_crime_exposure(w, lat, lon, radius) ==
    SumOver(Nearby(crime_data(w), lat, lon, radius), 3)

\* calculate_lighting_score(lat, lon, radius): mean score, 5.0 when none
calculate_lighting_score(w, lat, lon, radius) ==
    LET near == Nearby(lighting_data(w), lat, lon, radius)
        cnt == SumOver(near, 4)
        tot == SumOver({<<r[1], r[2], r[3] * r[4]>> : r \in near}, 3)
    IN  IF cnt > 0 THEN tot \div cnt ELSE 500

\* calculate_population_score(lat, lon, radius):
\* (mean density / 1000, mean traffic / 10, mean is_main_road > 0.5)
calculate_population_score(w, lat, lon, radius) ==
    LET near == Nearby(population_data(w), lat, lon, radius)
        k == Cardinality(near)
    IN  IF k > 0
        THEN [pop |-> (SumOver(near, 3) * 100) \div (k * 1000),
              traffic |-> (SumOver(near, 4) * 100) \div (k * 10),
              is_main |-> 2 * SumOver(near, 5) > k]
        ELSE [pop |-> 500, traffic |-> 500, is_main |-> FALSE]

\* check_route_main_road_coverage(route_points): coverage in percent (1/100)
check_route_main_road_coverage(w, route_points) ==
    IF Len(route_points) < 2 THEN 0
    ELSE LET n == Len(route_points)
             sample_points == Min(n, 20)
             step == n \div sample_points
             probe == Stride(route_points, Max(1, step))
             main_road_count ==
                 Cardinality({j \in 1..Len(probe) :
                     calculate_population_score(w, probe[j][1], probe[j][2], 300).is_main})
             total_sampled == Min(sample_points, n)
         IN  (main_road_count * 10000) \div total_sampled

--------------------------------------------------------------------------
(* SafetyScorer *)

\* avg_crime ** 1.2 * 5, tabulated at avg = 0, 0.5, 1.0, ... and interpolated
\* linearly in between; beyond the table the value is above the cap of 40
Pow12Table == <<0, 218, 500, 813, 1149, 1501, 1869, 2248, 2639, 3040, 3449, 3867,
                4293, 4726>>

\* a variant that reads an average beyond the table as no crime
Pow12x5Beyond(avg) ==
    LET k == avg \div 50
    IN  IF k + 2 > Len(Pow12Table) THEN 0
        ELSE Pow12Table[k + 1]
             + ((Pow12Table[k + 2] - Pow12Table[k + 1]) * (avg % 50)) \div 50

Pow12x5(avg) ==
    LET k == avg \div 50
    IN  IF k + 2 > Len(Pow12Table) THEN Pow12Table[Len(Pow12Table)]
        ELSE Pow12Table[k + 1]
             + ((Pow12Table[k + 2] - Pow12Table[k + 1]) * (avg % 50)) \div 50

\* max_crime_at_point ** 1.4 * 7 for an incident count
Pow14Table == <<0, 700, 1847, 3259, 4875, 6663>>

Pow14x7(m) == IF m + 1 > Len(Pow14Table) THEN Pow14Table[Len(Pow14Table)]
              ELSE Pow14Table[m + 1]

\* the preference record of a request
NoPreferences ==
    [prefer_main_roads |-> FALSE, prefer_well_lit |-> FALSE, prefer_populated |-> FALSE,
     safety_weight |-> 7, distance_weight |-> 3]

\* sampled_route = route[::sample_rate], sample_rate = max(1, len(route) // 50)
SampledRoute(route) == Stride(route, Max(1, Len(route) \div 50))

\* calculate_route_safety_comprehensive(route, preferences); ok = FALSE is None
calculate_route_safety_comprehensive(w, route, preferences) ==
    IF Len(route) < 2 THEN [ok |-> FALSE]
    ELSE
    LET sampled_route == SampledRoute(route)
        n_points == Len(sampled_route)
        crime == [j \in 1..n_points |->
                    calculate_crime_exposure(w, sampled_route[j][1], sampled_route[j][2], 300)]
        light == [j \in 1..n_points |->
                    calculate_lighting_score(w, sampled_route[j][1], sampled_route[j][2], 500)]
        pop == [j \in 1..n_points |->
                    calculate_population_score(w, sampled_route[j][1], sampled_route[j][2], 500)]
        total_crime == SumSeq(crime)
        max_crime_at_point == IF \A j \in 1..n_points : crime[j] = 0 THEN 0
                              ELSE CHOOSE c \in {crime[j] : j \in 1..n_points} :
                                      \A j \in 1..n_points : crime[j] <= c
        crime_hotspot_count == Cardinality({j \in 1..n_points : crime[j] > 3})
        main_road_count == Cardinality({j \in 1..n_points : pop[j].is_main})
        avg_crime == (total_crime * 100) \div n_points
        avg_lighting == SumSeq(light) \div n_points
        avg_population == SumSeq([j \in 1..n_points |-> pop[j].pop]) \div n_points
        avg_traffic == SumSeq([j \in 1..n_points |-> pop[j].traffic]) \div n_points
        main_road_pct == (main_road_count * 10000) \div n_points
        crime_hotspot_pct == (crime_hotspot_count * 10000) \div n_points
        base_crime_penalty == Min(4000, Pow12x5(avg_crime))
        max_crime_penalty == Min(4000, Pow14x7(max_crime_at_point))
        hotspot_penalty == Min(3000, crime_hotspot_pct \div 2)
        total_crime_penalty == base_crime_penalty + max_crime_penalty + hotspot_penalty
        base_safety_score == Max(0, 10000 - total_crime_penalty)
        lighting_multiplier ==
            1000 + (avg_lighting * (IF preferences.prefer_well_lit THEN 25 ELSE 8)) \div 10
        population_multiplier ==
            1000 + (avg_population * (IF preferences.prefer_populated THEN 20 ELSE 6)) \div 10
        traffic_multiplier ==
            1000 + (avg_traffic * (IF preferences.prefer_populated THEN 15 ELSE 4)) \div 10
        main_road_multiplier ==
            1000 + (main_road_pct * (IF preferences.prefer_main_roads THEN 25 ELSE 7)) \div 100
        total_multiplier == (lighting_multiplier + population_multiplier
                             + traffic_multiplier + main_road_multiplier) \div 4
        final_safety_score == Min(10000, (base_safety_score * total_multiplier) \div 1000)
    IN  [ok |-> TRUE,
         safety_score |-> final_safety_score,
         crime_density |-> avg_crime,
         max_crime_exposure |-> max_crime_at_point * 100,
         crime_hotspot_percentage |-> crime_hotspot_pct,
         lighting_score |-> avg_lighting,
         population_score |-> avg_population,
         traffic_score |-> avg_traffic,
         main_road_percentage |-> main_road_pct]

--------------------------------------------------------------------------
(* RouteProvider (OSRM): the polylines it may answer with.                  *)
(* The corridor runs east from (12.95, 77.58) to (12.95, 77.62), 4.3 km.    *)
(* Polyline ids 0..MaxBulgeId are 11-point paths along the corridor that    *)
(* bulge north (even id) or south (odd id) by a multiple of 1e-4 degree;    *)
(* the ids from 101 on are the irregular answers.                           *)

CorridorLat == 1295000

CorridorStartLon == 7758000

CorridorEndLon == 7762000

\* number of regular polylines the provider can produce
MaxBulgeId == 44

BulgeK(id) == IF id % 2 = 0 THEN id \div 2 ELSE -((id + 1) \div 2)

BulgeProfile == <<0, 1, 2, 3, 4, 5, 4, 3, 2, 1, 0>>

Bulge(k) ==
    [i \in 1..11 |-> <<CorridorLat + 10 * k * BulgeProfile[i],
                       CorridorStartLon + 400 * (i - 1)>>]

Straight == Bulge(0)

\* same five sample points as Straight, another path in between
Twin == [Straight EXCEPT ![4] = <<CorridorLat + 23, CorridorStartLon + 1200>>,
                         ![6] = <<CorridorLat + 3, CorridorStartLon + 2000>>]

\* Straight with two vertices dropped: one 1.3 km jump
Gapped == SelectIdx(Straight, {Straight[i] : i \in (1..11) \ {5, 6}})

\* runs east, back west and east again
ZigZag ==
    [i \in 1..23 |->
        <<CorridorLat,
          CorridorStartLon + 400 * (IF i <= 9 THEN i - 1
                                    ELSE IF i <= 15 THEN 17 - i
                                    ELSE i - 13)>>]

\* a path of another trip: starts 1.1 km north of the corridor
Unrelated == [i \in 1..11 |-> <<Straight[i][1] + 1000, Straight[i][2]>>]

OnePoint == <<Straight[1]>>

\* a two-point stub at the corridor start (a trip from a place to itself)
Stub == <<Straight[1], <<CorridorLat + 10, CorridorStartLon + 10>>>>

\* three points: the corridor ends and a place 2.8 km north of its middle
Hairpin == <<Straight[1], <<CorridorLat + 2500, CorridorStartLon + 2000>>, Straight[11]>>

\* four points, each within 0.5 km of the next, around three sides of a
\* rectangle on the first 0.43 km of the corridor
ShortDetour ==
    <<Straight[1], <<CorridorLat + 300, CorridorStartLon>>,
      <<CorridorLat + 300, CorridorStartLon + 400>>, Straight[2]>>

\* weaves 0.4 to 0.7 km north of the corridor, past the side street at
\* (12.954, 77.60), and is 12% longer than the corridor
Wander ==
    [i \in 1..11 |->
        <<CorridorLat + 200 * <<0, 1, 2, 3, 2, 3, 2, 3, 2, 1, 0>>[i],
          CorridorStartLon + 400 * (i - 1)>>]

\* 39 points: the first 1.1 km on the corridor, then a street 0.67 km
\* north of it until the last 0.2 km
LongWay ==
    [i \in 1..39 |->
        <<CorridorLat + (IF i <= 11 \/ i = 39 THEN 0
                         ELSE IF i = 12 \/ i = 38 THEN 300 ELSE 600),
          CorridorStartLon + (4000 * (i - 1)) \div 38>>]

IrregularIds == {101, 103, 104, 105, 106, 107, 108, 109, 110, 111}

GeomIds == (0..MaxBulgeId) \cup IrregularIds

GeomPoints(id) ==
    CASE id = 101 -> Twin
      [] id = 103 -> Gapped
      [] id = 104 -> ZigZag
      [] id = 105 -> Unrelated
      [] id = 106 -> OnePoint
      [] id = 107 -> Stub
      [] id = 108 -> Hairpin
      [] id = 109 -> ShortDetour
      [] id = 110 -> Wander
      [] id = 111 -> LongWay
      [] OTHER -> Bulge(BulgeK(id))

\* OSRM's distance (metres) and duration (seconds, at 18 km/h) for a polyline
RawDistance == [id \in GeomIds |-> PathLength(GeomPoints(id))]

RawDuration == [id \in GeomIds |-> RawDistance[id] \div 5]

\* the outcome of requests.get + response.json() + the code check: any
\* exception, timeout or non-Ok code (a mark, no polyline has id -1)
ProviderFailure == <<-1>>

\* the mark of a step that issues no provider call
NoCall == <<-2>>

\* the endpoint test of get_route_from_osrm: at least 2 coordinates, first
\* and last within 0.2 km of the requested start and end
EndpointsMatch(start_lat, start_lon, end_lat, end_lon, route) ==
    /\ Len(route) >= 2
    /\ haversine_distance(start_lat, start_lon, route[1][1], route[1][2]) <= 200
    /\ haversine_distance(end_lat, end_lon,
                          route[Len(route)][1], route[Len(route)][2]) <= 200

\* the nearest grid points south and east of the service bounding box
OutsideLat == BoundsMinLat - 1

OutsideLon == BoundsMaxLon + 1

\* the end of a trip of 1.1 km along the corridor
ShortEndLon == CorridorStartLon + 1000

\* a street 0.1 km north of the southern edge of the box
EdgeLat == BoundsMinLat + 100

\* the trips of the requests whose coordinates parse: <<start, end>>
TripEnds == {<<CorridorLat, CorridorStartLon, CorridorLat, CorridorEndLon>>,
             <<CorridorLat, CorridorStartLon, CorridorLat, CorridorStartLon>>,
             <<OutsideLat, CorridorStartLon, CorridorLat, CorridorEndLon>>,
             <<CorridorLat, CorridorStartLon, CorridorLat, OutsideLon>>,
             <<CorridorLat, CorridorStartLon, CorridorLat, ShortEndLon>>,
             <<EdgeLat, CorridorStartLon, EdgeLat, ShortEndLon>>,
             <<EdgeLat, CorridorStartLon, EdgeLat, CorridorEndLon>>}

EndpointsOf ==
    [t \in TripEnds, id \in GeomIds |->
        EndpointsMatch(t[1], t[2], t[3], t[4], GeomPoints(id))]

RECURSIVE KeepMatching(_, _)
KeepMatching(t, raw) ==
    IF raw = << >> THEN << >>
    ELSE (IF EndpointsOf[t, Head(raw)] THEN <<Head(raw)>> ELSE << >>)
         \o KeepMatching(t, Tail(raw))

\* a variant that answers a failed call with the straight polyline
get_route_or_straight(start_lat, start_lon, end_lat, end_lon, raw) ==
    IF raw = ProviderFailure THEN <<0>>
    ELSE KeepMatching(<<start_lat, start_lon, end_lat, end_lon>>, raw)

\* get_route_from_osrm(start, end, waypoint) given the provider's raw answer
\* (ProviderFailure or a sequence of polyline ids): None is << >> here, as
\* every caller only tests the result for truth
get_route_from_osrm(start_lat, start_lon, end_lat, end_lon, raw) ==
    IF ~(/\ validate_coordinates(Num(start_lat), Num(start_lon))
         /\ validate_coordinates(Num(end_lat), Num(end_lon)))
    THEN << >>
    ELSE IF raw = ProviderFailure THEN << >>
    ELSE KeepMatching(<<start_lat, start_lon, end_lat, end_lon>>, raw)

--------------------------------------------------------------------------
(* GuardrailEngine (app/safety/guardrails.py) *)

\* the clock: minutes since local midnight
HourOf(minutes) == (minutes \div 60) % 24

\* a variant that applies the end-of-route factor to a late-night start too
check_time_extends_always(current_time, route_duration_seconds) ==
    LET hour == HourOf(current_time)
        is_late_night == 23 <= hour \/ hour < 5
        is_early_morning == 5 <= hour /\ hour < 7
        end_hour == ((current_time * 60 + route_duration_seconds) \div 3600) % 24
        extends == 23 <= end_hour \/ end_hour < 5
        base == IF is_late_night THEN 50 ELSE IF is_early_morning THEN 80 ELSE 100
    IN  [is_safe |-> ~is_late_night,
         time_factor |-> IF extends THEN (base * 8) \div 10 ELSE base,
         warnings |-> (IF is_late_night THEN <<"late_night">>
                       ELSE IF is_early_morning THEN <<"early_morning">> ELSE << >>)
                      \o (IF extends THEN <<"extends_late">> ELSE << >>)]

\* check_time_based_safety(current_time, route_duration_seconds);
\* time_factor in 1/100
check_time_based_safety(current_time, route_duration_seconds) ==
    LET hour == HourOf(current_time)
        is_late_night == 23 <= hour \/ hour < 5
        is_early_morning == 5 <= hour /\ hour < 7
        end_hour == ((current_time * 60 + route_duration_seconds) \div 3600) % 24
        extends == ~is_late_night /\ (23 <= end_hour \/ end_hour < 5)
        base == IF is_late_night THEN 50 ELSE IF is_early_morning THEN 80 ELSE 100
    IN  [is_safe |-> ~is_late_night,
         time_factor |-> IF extends THEN (base * 8) \div 10 ELSE base,
         warnings |-> (IF is_late_night THEN <<"late_night">>
                       ELSE IF is_early_morning THEN <<"early_morning">> ELSE << >>)
                      \o (IF extends THEN <<"extends_late">> ELSE << >>)]

\* check_crime_hotspots(route_coords, crime_data, 0.5, 20):
\* threshold_distance / 111 degrees is 450.45 grid units
check_crime_hotspots(route_coords, w) ==
    LET count(j) == SumOver(Nearby(crime_data(w), route_coords[j][1], route_coords[j][2], 451), 3)
        is_safe == \A j \in 1..Len(route_coords) : count(j) <= 20
    IN  [is_safe |-> is_safe,
         warnings |-> IF is_safe THEN << >> ELSE <<"crime_hotspot">>]

\* check_lighting_coverage(route_coords, lighting_data, 2)
check_lighting_coverage(route_coords, w) ==
    LET light_count(j) ==
            SumOver(Nearby(lighting_data(w), route_coords[j][1], route_coords[j][2], 500), 4)
        poorly_lit_segments == Cardinality({j \in 1..Len(route_coords) : light_count(j) < 2})
        is_safe == poorly_lit_segments * 100 < 30 * Len(route_coords)
    IN  [is_safe |-> is_safe,
         warnings |-> IF is_safe THEN << >> ELSE <<"lighting">>]

\* check_isolated_areas(route_coords, population_data, 50): reading the
\* 'population' column of a non-empty selection raises KeyError when the
\* table has no such column
check_isolated_areas(route_coords, w) ==
    LET near(j) == Nearby(population_data(w), route_coords[j][1], route_coords[j][2], 500)
        raises == /\ ~HasPopulationColumn(w)
                  /\ \E j \in 1..Len(route_coords) : near(j) # {}
        isolated(j) == IF near(j) = {} THEN TRUE
                       ELSE SumOver(near(j), 6) < 50 * Cardinality(near(j))
        isolated_segments == Cardinality({j \in 1..Len(route_coords) : isolated(j)})
        is_safe == isolated_segments * 100 < 75 * Len(route_coords)
    IN  IF raises THEN [raised |-> TRUE, is_safe |-> TRUE, warnings |-> << >>]
        ELSE [raised |-> FALSE, is_safe |-> is_safe,
              warnings |-> IF is_safe THEN << >> ELSE <<"isolated">>]

\* A step of route_data['steps'] is either a plain [lat, lon] pair
\* (kind "pair") or a dict with start_location / end_location (kind "leg")
PairSteps(route) == [i \in 1..Len(route) |-> [kind |-> "pair", at |-> route[i]]]

LegSteps(route) ==
    [i \in 1..(Len(route) - 1) |-> [kind |-> "leg", from |-> route[i], to |-> route[i + 1]]]

\* a variant that reads a plain pair as a coordinate of the route
RouteCoordsOfPairs(steps) ==
    [i \in 1..Len(steps) |->
        IF steps[i].kind = "pair" THEN steps[i].at ELSE steps[i].from]

\* the route_coords loop of apply_safety_guardrails: the membership test
\* 'start_location' in step finds nothing in a [lat, lon] list
RECURSIVE RouteCoords(_)
RouteCoords(steps) ==
    IF steps = << >> THEN << >>
    ELSE (IF Head(steps).kind = "leg" THEN <<Head(steps).from, Head(steps).to>> ELSE << >>)
         \o RouteCoords(Tail(steps))

\* a variant that rejects through the whole late night (11 PM - 5 AM)
HardRejectLateNight(time_safe, hour) == ~time_safe

\* the one hard rejection: not time_safe and 0 <= hour < 3
HardReject(time_safe, hour) == ~time_safe /\ hour >= 0 /\ hour < 3

\* apply_safety_guardrails(route_data, safety_score, current_time, datasets)
apply_safety_guardrails(route_data, safety_score, current_time, w) ==
    LET route_coords == RouteCoords(route_data.steps)
        time == check_time_based_safety(current_time, route_data.duration)
        hour == HourOf(current_time)
        is_valid == ~HardReject(time.is_safe, hour)
        s1 == (safety_score * time.time_factor) \div 100
        checked == Len(route_coords) > 0
        crime == check_crime_hotspots(route_coords, w)
        s2 == IF checked /\ ~crime.is_safe THEN (s1 * 7) \div 10 ELSE s1
        lighting == check_lighting_coverage(route_coords, w)
        s3 == IF checked /\ ~lighting.is_safe /\ (hour < 6 \/ hour >= 20)
              THEN (s2 * 8) \div 10 ELSE s2
        isolation == check_isolated_areas(route_coords, w)
        s4 == IF checked /\ ~isolation.is_safe THEN (s3 * 8) \div 10 ELSE s3
    IN  IF checked /\ isolation.raised
        THEN [raised |-> TRUE, is_valid |-> is_valid, adjusted_score |-> s3,
              warnings |-> << >>]
        ELSE [raised |-> FALSE,
              is_valid |-> is_valid,
              adjusted_score |-> Clip(s4, 0, 10000),
              warnings |-> time.warnings
                           \o (IF checked THEN crime.warnings \o lighting.warnings
                                               \o isolation.warnings
                               ELSE << >>)]

--------------------------------------------------------------------------
(* CompositeRanker and MLBlender *)

\* calculate_composite_score(route, preferences) in 1e-6; the copy in
\* app.py gives main roads 0.35 and a further 0.15 above 70%, the copy in
\* app/routes.py gives 0.15
calculate_composite_score(endpoint, route, preferences) ==
    LET normalized_safety == route.safety_score * 100
        normalized_distance == Max(0, 1000000 - (route.distance_km * 100) \div 3)
        crime_penalty ==
            Min(1000000, (route.crime_density * 3 + route.max_crime_exposure * 7) * 50)
        safety_component ==
            ((normalized_safety \div 100) * ((1000000 - crime_penalty \div 2) \div 100)) \div 100
        main_bonus ==
            IF ~preferences.prefer_main_roads THEN 0
            ELSE IF endpoint = "app"
                 THEN route.main_road_percentage * 35
                      + (IF route.main_road_percentage > 7000 THEN 150000 ELSE 0)
                 ELSE route.main_road_percentage * 15
        lit_bonus == IF preferences.prefer_well_lit THEN route.lighting_score * 150 ELSE 0
        pop_bonus == IF preferences.prefer_populated THEN route.population_score * 150 ELSE 0
    IN  (safety_component * preferences.safety_weight) \div 10
        + (normalized_distance * preferences.distance_weight) \div 10
        + main_bonus + lit_bonus + pop_bonus

\* The predictor as Phase 3 finds it: "off" (the import failed,
\* ML_AVAILABLE is False), "heuristic" (no model file), a trained model
\* whose raw prediction is below 0 ("low") or above 100 ("high"), or a
\* model whose predict() raises ("raises"), or a model whose predict()
\* raises on some feature vectors (here: crime_density above 1.0) and is
\* above 100 on the others ("flaky")
MLModes == {"off", "heuristic", "low", "high", "raises", "flaky"}

\* a variant without np.clip
predict_unclipped(ml, features) ==
    CASE ml = "heuristic" ->
            LET crime_score == Max(0, 10000 - features.crime_density * 10)
                lighting_score == features.lighting_score * 10
            IN  [ok |-> TRUE, score |-> (crime_score + lighting_score) \div 2]
      [] ml = "low" -> [ok |-> TRUE, score |-> -2500]
      [] ml = "high" -> [ok |-> TRUE, score |-> 13000]
      [] ml = "flaky" /\ features.crime_density <= 100 -> [ok |-> TRUE, score |-> 13000]
      [] OTHER -> [ok |-> FALSE, score |-> 0]

\* predict_safety_score(features): ok = FALSE when predict() raises
predict_safety_score(ml, features) ==
    CASE ml = "heuristic" ->
            LET crime_score == Max(0, 10000 - features.crime_density * 10)
                lighting_score == features.lighting_score * 10
            IN  [ok |-> TRUE, score |-> Clip((crime_score + lighting_score) \div 2, 0, 10000)]
      [] ml = "low" -> [ok |-> TRUE, score |-> Clip(-2500, 0, 10000)]
      [] ml = "high" -> [ok |-> TRUE, score |-> Clip(13000, 0, 10000)]
      [] ml = "flaky" /\ features.crime_density <= 100 ->
            [ok |-> TRUE, score |-> Clip(13000, 0, 10000)]
      [] OTHER -> [ok |-> FALSE, score |-> 0]

\* a variant that blends first and ranks on the blended score
ScoreRouteBlendFirst(endpoint, ml, route, preferences) ==
    LET p == predict_safety_score(ml, route)
        blended == IF ml # "off" /\ p.ok
                   THEN [route EXCEPT !.safety_score =
                            (75 * route.safety_score + 25 * p.score) \div 100]
                   ELSE route
    IN  [blended EXCEPT !.composite_score =
            calculate_composite_score(endpoint, blended, preferences)]

\* one iteration of the Phase 3 loop: composite score, then the blend
ScoreRoute(endpoint, ml, route, preferences) ==
    LET scored == [route EXCEPT !.composite_score =
                       calculate_composite_score(endpoint, route, preferences)]
        p == predict_safety_score(ml, scored)
    IN  IF ml # "off" /\ p.ok
        THEN [scored EXCEPT !.safety_score = (75 * scored.safety_score + 25 * p.score) \div 100]
        ELSE scored

\* a variant that leaves the pool in generation order
SortNone(routes) == routes

\* list.sort(key=composite_score, reverse=True): stable, descending
RECURSIVE InsertDesc(_, _)
InsertDesc(sorted, r) ==
    IF sorted = << >> THEN <<r>>
    ELSE IF Head(sorted).composite_score >= r.composite_score
         THEN <<Head(sorted)>> \o InsertDesc(Tail(sorted), r)
         ELSE <<r>> \o sorted

RECURSIVE SortDesc(_)
SortDesc(routes) ==
    IF routes = << >> THEN << >>
    ELSE InsertDesc(SortDesc(SubSeq(routes, 1, Len(routes) - 1)), routes[Len(routes)])

--------------------------------------------------------------------------
(* The optimize-route request: inputs *)

FlagsNone == [prefer_main_roads |-> FALSE, prefer_well_lit |-> FALSE, prefer_populated |-> FALSE]

FlagsMain == [FlagsNone EXCEPT !.prefer_main_roads = TRUE]

FlagsLitPop == [FlagsNone EXCEPT !.prefer_well_lit = TRUE, !.prefer_populated = TRUE]

FlagsAll == [FlagsLitPop EXCEPT !.prefer_main_roads = TRUE]

RequestFlags == {FlagsNone, FlagsMain, FlagsLitPop, FlagsAll}

\* request.json of a trip along the corridor with the given preferences
\* and weights (weights in tenths; Missing takes the default)
TripRequest(flags, sw, dw) ==
    [start_lat |-> Num(CorridorLat), start_lon |-> Num(CorridorStartLon),
     end_lat |-> Num(CorridorLat), end_lon |-> Num(CorridorEndLon),
     flags |-> flags, safety_weight |-> sw, distance_weight |-> dw]

DefaultTrip == TripRequest(FlagsNone, Missing, Missing)

\* the request bodies considered
Requests ==
    { TripRequest(f, Missing, Missing) : f \in RequestFlags }
    \cup { TripRequest(FlagsNone, Num(3), Num(7)),
           TripRequest(FlagsNone, Unparseable, Missing),
           [DefaultTrip EXCEPT !.end_lon = Num(CorridorStartLon)],
           [DefaultTrip EXCEPT !.start_lat = Missing],
           [DefaultTrip EXCEPT !.end_lon = Unparseable],
           [DefaultTrip EXCEPT !.start_lat = Num(OutsideLat)],
           [DefaultTrip EXCEPT !.end_lon = Num(OutsideLon), !.safety_weight = Unparseable],
           [DefaultTrip EXCEPT !.end_lon = Num(OutsideLon)] }

\* the tables a serving process may have loaded
PipelineWorlds == {1, 2}

\* datetime.now(), minutes since midnight: 00:00, 02:50, 03:00, 05:00,
\* 12:00, 22:50 and 23:00, one or two per branch of the time checks
Times == {0, 170, 180, 300, 720, 1370, 1380}

--------------------------------------------------------------------------
(* Memoised pure functions of a polyline *)

ConnectivityOf == [id \in GeomIds |-> validate_route_connectivity(GeomPoints(id), MaxGapM)]

HashOf == [id \in GeomIds |-> calculate_route_hash(GeomPoints(id))]

SafetyOf ==
    [w \in PipelineWorlds, f \in RequestFlags, id \in GeomIds |->
        calculate_route_safety_comprehensive(w, GeomPoints(id), f)]

MainCoverageOf ==
    [w \in PipelineWorlds, id \in GeomIds |-> check_route_main_road_coverage(w, GeomPoints(id))]

BacktrackingOf ==
    [t \in TripEnds, id \in GeomIds |->
        detect_route_backtracking(GeomPoints(id), t[1], t[2], t[3], t[4])]

--------------------------------------------------------------------------
(* CandidateGenerator *)

\* max_waypoints
MaxWaypoints == 25

\* the 3 x 3 x 2 iterations of the waypoint loops
NumWaypointSlots == 18

Positions == <<25, 50, 75>>

\* offset_distances_km / 111.0, in grid units
Offsets == <<450, 1081, 2252>>

Directions == <<1, -1>>

\* the synthetic waypoint of iteration i (0-based) of the nested loops
Waypoint(start_lat, start_lon, end_lat, end_lon, i) ==
    LET lat_diff == end_lat - start_lat
        lon_diff == end_lon - start_lon
        perp_magnitude == ISqrt(lon_diff * lon_diff + lat_diff * lat_diff)
        position == Positions[(i \div 6) + 1]
        offset == Offsets[((i \div 2) % 3) + 1]
        direction == Directions[(i % 2) + 1]
        mid_lat == start_lat + (lat_diff * position) \div 100
        mid_lon == start_lon + (lon_diff * position) \div 100
    IN  IF perp_magnitude > 0
        THEN <<mid_lat + ((-lon_diff) * offset * direction) \div perp_magnitude,
               mid_lon + (lat_diff * offset * direction) \div perp_magnitude>>
        ELSE <<mid_lat, mid_lon>>

\* a variant that calls the provider for every waypoint inside the box
WaypointInBox(start_lat, start_lon, end_lat, end_lon, i) ==
    LET wp == Waypoint(start_lat, start_lon, end_lat, end_lon, i)
    IN  validate_coordinates(Num(wp[1]), Num(wp[2]))

\* whether iteration i reaches the provider call: the waypoint is inside the
\* box and its detour ratio is at most 1.8
WaypointCallable(start_lat, start_lon, end_lat, end_lon, i) ==
    LET wp == Waypoint(start_lat, start_lon, end_lat, end_lon, i)
        base_distance == haversine_distance(start_lat, start_lon, end_lat, end_lon)
        wp_dist == haversine_distance(start_lat, start_lon, wp[1], wp[2])
                   + haversine_distance(wp[1], wp[2], end_lat, end_lon)
    IN  /\ validate_coordinates(Num(wp[1]), Num(wp[2]))
        /\ base_distance > 0
        /\ 10 * wp_dist <= 18 * base_distance

CallableOf ==
    [t \in TripEnds, i \in 0..(NumWaypointSlots - 1) |->
        WaypointCallable(t[1], t[2], t[3], t[4], i)]

\* a candidate as it is appended to all_routes (route_data.update(safety))
Candidate(id, type, safety) ==
    [id |-> id, type |-> type,
     distance_km |-> RawDistance[id], duration_min |-> RawDuration[id],
     safety_score |-> safety.safety_score,
     crime_density |-> safety.crime_density,
     max_crime_exposure |-> safety.max_crime_exposure,
     crime_hotspot_percentage |-> safety.crime_hotspot_percentage,
     lighting_score |-> safety.lighting_score,
     population_score |-> safety.population_score,
     traffic_score |-> safety.traffic_score,
     main_road_percentage |-> safety.main_road_percentage,
     composite_score |-> 0,
     guardrail_warnings |-> << >>]

\* the tests a returned polyline passes before it is scored
PassesValidation(trip, id) ==
    /\ ConnectivityOf[id]
    /\ BacktrackingOf[trip, id]

\* a variant that never consults route_hashes
IsNewHashAlways(route_hash, hashes) == route_hash # NoHash

\* the duplicate test
IsNewHash(route_hash, hashes) == route_hash # NoHash /\ route_hash \notin hashes

\* Phase 1 loop over direct_routes; acc = [routes, hashes]
RECURSIVE DirectLoop(_, _, _, _, _)
DirectLoop(w, trip, prefs, routes, acc) ==
    IF routes = << >> THEN acc
    ELSE LET id == Head(routes)
             route_hash == HashOf[id]
             safety == SafetyOf[w, prefs, id]
             main_pct == MainCoverageOf[w, id]
             accept == /\ PassesValidation(trip, id)
                       /\ IsNewHash(route_hash, acc.hashes)
                       /\ safety.ok
                       /\ ~(prefs.prefer_main_roads /\ main_pct < 4000)
         IN  DirectLoop(w, trip, prefs, Tail(routes),
                 IF accept
                 THEN [routes |-> Append(acc.routes, Candidate(id, "direct", safety)),
                       hashes |-> acc.hashes \cup {route_hash}]
                 ELSE acc)

\* Phase 2 loop over waypoint_routes; acc = [routes, hashes, count]
RECURSIVE WaypointLoop(_, _, _, _, _)
WaypointLoop(w, trip, prefs, routes, acc) ==
    IF routes = << >> \/ acc.count >= MaxWaypoints THEN acc
    ELSE LET id == Head(routes)
             route_hash == HashOf[id]
             safety == SafetyOf[w, prefs, id]
             accept == /\ PassesValidation(trip, id)
                       /\ IsNewHash(route_hash, acc.hashes)
                       /\ safety.ok
                       /\ ~(prefs.prefer_main_roads /\ safety.main_road_percentage < 4000)
         IN  WaypointLoop(w, trip, prefs, Tail(routes),
                 IF accept
                 THEN [routes |-> Append(acc.routes, Candidate(id, "waypoint", safety)),
                       hashes |-> acc.hashes \cup {route_hash},
                       count |-> acc.count + 1]
                 ELSE acc)

--------------------------------------------------------------------------
(* ResultCurator *)

\* Phase 4 loop: guardrails in sorted order, stop at 20 accepted
GuardrailStop == 20

\* a variant that also skips a candidate whose adjusted score is below 30
RECURSIVE GuardrailLoopWithFloor(_, _, _, _)
GuardrailLoopWithFloor(w, current_time, routes, validated) ==
    IF routes = << >> \/ Len(validated) >= GuardrailStop THEN validated
    ELSE LET route == Head(routes)
             g == apply_safety_guardrails(
                      [steps |-> PairSteps(GeomPoints(route.id)),
                       duration |-> route.duration_min],
                      route.safety_score, current_time, w)
         IN  GuardrailLoopWithFloor(w, current_time, Tail(routes),
                 IF g.is_valid /\ g.adjusted_score >= 3000
                 THEN Append(validated, [route EXCEPT !.safety_score = g.adjusted_score,
                                                       !.guardrail_warnings = g.warnings])
                 ELSE validated)

RECURSIVE GuardrailLoop(_, _, _, _)
GuardrailLoop(w, current_time, routes, validated) ==
    IF routes = << >> \/ Len(validated) >= GuardrailStop THEN validated
    ELSE LET route == Head(routes)
             g == apply_safety_guardrails(
                      [steps |-> PairSteps(GeomPoints(route.id)),
                       duration |-> route.duration_min],
                      route.safety_score, current_time, w)
         IN  GuardrailLoop(w, current_time, Tail(routes),
                 IF g.is_valid
                 THEN Append(validated, [route EXCEPT !.safety_score = g.adjusted_score,
                                                       !.guardrail_warnings = g.warnings])
                 ELSE validated)

\* the number of iterations of the Phase 4 loop that reach the call of
\* apply_safety_guardrails, for a loop entered with `passed` routes accepted
RECURSIVE GuardrailEvaluations(_, _, _, _)
GuardrailEvaluations(w, current_time, routes, passed) ==
    IF routes = << >> \/ passed >= GuardrailStop THEN 0
    ELSE LET route == Head(routes)
             g == apply_safety_guardrails(
                      [steps |-> PairSteps(GeomPoints(route.id)),
                       duration |-> route.duration_min],
                      route.safety_score, current_time, w)
         IN  1 + GuardrailEvaluations(w, current_time, Tail(routes),
                                      IF g.is_valid THEN passed + 1 ELSE passed)

\* validated_routes[:7]
MaxFinalRoutes == 7

\* a variant without the slice
TruncateNone(validated) == validated

Truncate(validated) == SubSeq(validated, 1, Min(MaxFinalRoutes, Len(validated)))

\* a variant that tests the distance before the crime figures
CategoryFastestFirst(final_routes, idx) ==
    LET route == final_routes[idx + 1]
        shortest == CHOOSE d \in {final_routes[j].distance_km : j \in 1..Len(final_routes)} :
                        \A j \in 1..Len(final_routes) : d <= final_routes[j].distance_km
    IN  IF idx = 0 THEN "best"
        ELSE IF 100 * route.distance_km <= 105 * shortest THEN "fastest"
        ELSE IF route.crime_density <= 150 /\ route.max_crime_exposure <= 300 THEN "safest"
        ELSE IF route.main_road_percentage >= 7000 THEN "main_roads"
        ELSE "balanced"

\* the category of the route at 0-based position idx of final_routes
Category(final_routes, idx) ==
    LET route == final_routes[idx + 1]
        shortest == CHOOSE d \in {final_routes[j].distance_km : j \in 1..Len(final_routes)} :
                        \A j \in 1..Len(final_routes) : d <= final_routes[j].distance_km
    IN  IF idx = 0 THEN "best"
        ELSE IF route.crime_density <= 150 /\ route.max_crime_exposure <= 300 THEN "safest"
        ELSE IF 100 * route.distance_km <= 105 * shortest THEN "fastest"
        ELSE IF route.main_road_percentage >= 7000 THEN "main_roads"
        ELSE "balanced"

\* route['warning'] of a curated route
CrimeWarning(route) ==
    IF route.max_crime_exposure > 800 \/ route.crime_density > 500 THEN "high_crime"
    ELSE IF route.max_crime_exposure > 500 \/ route.crime_density > 300 THEN "moderate_crime"
    ELSE "none"

\* route['reasons'] of a curated route: the fixed texts as <<tag, 0>>, the
\* formatted ones with their number (crime density to one decimal, in
\* tenths; the others to whole units)
Reasons(route) ==
    (IF route.crime_density <= 100 THEN <<<<"very_low_crime", 0>>>>
     ELSE IF route.crime_density <= 200 THEN <<<<"low_crime", 0>>>>
     ELSE IF route.crime_density > 400
          THEN <<<<"crime_density", (route.crime_density + 5) \div 10>>>>
     ELSE << >>)
    \o (IF route.max_crime_exposure <= 200 THEN <<<<"no_hotspots", 0>>>>
        ELSE IF route.max_crime_exposure <= 500 THEN <<<<"minimal_exposure", 0>>>>
        ELSE <<<<"max_crime_exposure", (route.max_crime_exposure + 50) \div 100>>>>)
    \o (IF route.main_road_percentage > 7000
        THEN <<<<"main_roads", (route.main_road_percentage + 50) \div 100>>>> ELSE << >>)
    \o (IF route.lighting_score > 750 THEN <<<<"well_lit", 0>>>> ELSE << >>)
    \o (IF route.population_score > 600 THEN <<<<"populated", 0>>>> ELSE << >>)

\* a route as it is serialised into the response
Returned(route, rank, category, warning, reasons) ==
    [id |-> route.id, type |-> route.type, rank |-> rank, category |-> category,
     warning |-> warning, reasons |-> reasons, safety_score |-> route.safety_score,
     distance_km |-> route.distance_km,
     crime_density |-> route.crime_density,
     max_crime_exposure |-> route.max_crime_exposure,
     main_road_percentage |-> route.main_road_percentage]

\* the annotation loop over final_routes
Curate(validated) ==
    LET final_routes == Truncate(validated)
    IN  [idx \in 1..Len(final_routes) |->
            Returned(final_routes[idx], idx, Category(final_routes, idx - 1),
                     CrimeWarning(final_routes[idx]), Reasons(final_routes[idx]))]

NoResponse == [status |-> 0, success |-> FALSE, error |-> "", routes |-> << >>,
               total_analyzed |-> 0, is_fallback |-> FALSE]

ErrorResponse(status, error) == [NoResponse EXCEPT !.status = status, !.error = error]

SuccessResponse(routes, total, fallback) ==
    [status |-> 200, success |-> TRUE, error |-> "", routes |-> routes,
     total_analyzed |-> total, is_fallback |-> fallback]

--------------------------------------------------------------------------
(* The request handler as a state machine *)

VARIABLES
    endpoint,          \* "routes": app/routes.py api_optimize_route; "app": app.py optimize_route
    request,           \* request.json
    world,             \* the content of crime_data / lighting_data / population_data
    ml,                \* how the predictor behaves in Phase 3 of this request
    provider,          \* how OSRM behaves during the request
    pc,                \* position in the handler
    preferences,
    all_routes,
    route_hashes,
    wp_idx,            \* iteration of the waypoint loops, 0-based
    waypoint_count,
    direct_calls,      \* provider calls issued without a waypoint
    waypoint_calls,    \* provider calls issued with a waypoint
    failed_calls,      \* provider calls that failed
    last_raw,          \* the provider's answer in the step just taken, or NoCall
    current_time,
    validated_routes,
    guard_evaluated,   \* iterations of the Phase 4 loop that called the guardrails
    response,
    guard_input,       \* the arguments of a direct call of apply_safety_guardrails
    verdict,           \* what that call returned
    unblended,         \* the answer to the same request when the predictor is absent
    scored,            \* the calls of calculate_route_safety_comprehensive made directly
    sanity,            \* what a direct call of the two geometry validators returned
    peer,              \* the locals of another request the process serves meanwhile
    alone,             \* the pool of this request as it grows when no other is served
    sampling,          \* how many points a direct call of a sampling function visited
    training_file,     \* DATA_FILE of the FeatureLogger: absent, or its lines
    loggers            \* the calls of log_route_sample in progress

vars == <<endpoint, request, world, ml, provider, pc, preferences, all_routes, route_hashes,
          wp_idx, waypoint_count, direct_calls, waypoint_calls, failed_calls, last_raw,
          current_time, validated_routes, guard_evaluated, response, guard_input, verdict,
          unblended,
          scored, sanity, peer, alone, sampling, training_file, loggers>>

\* all_routes = [], route_hashes = set(), waypoint_count = 0
EmptyPool == [routes |-> << >>, hashes |-> {}, count |-> 0]

\* no other request is being served
NoPeer == [pc |-> "none", all_routes |-> << >>, route_hashes |-> {}, seen |-> << >>]

NoSanity == [id |-> -1, connected |-> FALSE, efficient |-> FALSE]

NoSampling == [points |-> 0, function |-> "none", visited |-> 0, segments |-> 0]

\* DATA_FILE does not exist
NoFile == [exists |-> FALSE, lines |-> << >>]

\* the lines of DATA_FILE: the header row and the data row of a sample
HeaderRow == <<"header", 0>>

DataRow(sample) == <<"row", sample>>

\* open(DATA_FILE, 'w'): the file exists and is empty
OpenTruncated == [exists |-> TRUE, lines |-> << >>]

\* df.to_csv(mode='w', header=True) after its open: header and row are
\* written from the start of the file, over whatever was appended to it
\* since the open (line by line here)
WriteFromStart(file, sample) ==
    [exists |-> TRUE,
     lines |-> <<HeaderRow, DataRow(sample)>> \o SubSeq(file.lines, 3, Len(file.lines))]

\* df.to_csv(mode='a', header=False)
AppendRow(file, sample) == [exists |-> TRUE, lines |-> Append(file.lines, DataRow(sample))]

\* log_route_sample(features, label) run from its first to its last
\* statement with no other call in between
LogAlone(file, sample) ==
    IF ~file.exists THEN WriteFromStart(OpenTruncated, sample)
    ELSE IF file.lines = << >> THEN file
    ELSE AppendRow(file, sample)

\* the calls of one request, one per route whose prediction succeeded
RECURSIVE LogAll(_, _)
LogAll(file, samples) ==
    IF samples = << >> THEN file
    ELSE LogAll(LogAlone(file, Head(samples)), Tail(samples))

NoGuardInput == [id |-> 0, kind |-> "pair", safety_score |-> 0, duration |-> 0]

NoVerdict == [raised |-> FALSE, is_valid |-> TRUE, adjusted_score |-> 0, warnings |-> << >>]

\* "free": a call is answered by any of FreeAnswers or fails while fewer
\* than FreeCalls calls were made or the pool is empty, and OSRM finds no
\* route for the calls after that.
\* "wide": OSRM answers every call with fresh alternatives, and at most
\* MaxOutages calls fail.
\* "steady" (the two-request runs): as "wide", and no call fails.
ProviderModes == {"free", "wide"}

FreeAnswers ==
    { << >>, <<0, 101, 103>>, <<6, 0>>, <<104, 105, 106, 15>>, <<107>>, <<1, 26, 110, 111>> }

FreeCalls == 2

MaxOutages == 1

\* the answer in "wide" mode: three direct alternatives, two per waypoint
WideAnswer(slot) == IF slot < 0 THEN <<0, 1, 2>> ELSE <<3 + 2 * slot, 4 + 2 * slot>>

\* the raw answers the provider may give to the call of a slot (-1 = direct)
Answers(slot) ==
    IF provider = "free"
    THEN (IF direct_calls + waypoint_calls < FreeCalls \/ Len(all_routes) = 0
          THEN FreeAnswers \cup {ProviderFailure} ELSE {<< >>})
    ELSE {WideAnswer(slot)}
         \cup (IF provider = "wide" /\ failed_calls < MaxOutages
               THEN {ProviderFailure} ELSE {})

CoordOf(req) == <<req.start_lat.val, req.start_lon.val, req.end_lat.val, req.end_lon.val>>

WeightOf(field, default) == IF field.kind = "num" THEN field.val ELSE default

Idle(ep) ==
    /\ endpoint = ep
    /\ ml = "off"
    /\ preferences = NoPreferences
    /\ all_routes = << >>
    /\ route_hashes = {}
    /\ wp_idx = 0
    /\ waypoint_count = 0
    /\ direct_calls = 0
    /\ waypoint_calls = 0
    /\ failed_calls = 0
    /\ last_raw = NoCall
    /\ current_time = 0
    /\ validated_routes = << >>
    /\ guard_evaluated = 0
    /\ response = NoResponse
    /\ unblended = NoResponse
    /\ scored = << >>
    /\ sanity = NoSanity
    /\ alone = EmptyPool
    /\ sampling = NoSampling

InitWith(ep) ==
    /\ Idle(ep)
    /\ request \in Requests
    /\ world \in PipelineWorlds
    /\ provider \in ProviderModes
    /\ pc = "request"
    /\ guard_input = NoGuardInput
    /\ verdict = NoVerdict
    /\ training_file = NoFile
    /\ loggers = << >>
    /\ peer = NoPeer

Init == InitWith("routes")

Respond(r) ==
    /\ response' = r
    /\ pc' = "done"

\* request parsing and validation, up to the first provider call
Validate ==
    /\ pc = "request"
    /\ last_raw' = NoCall
    /\ LET coords == <<request.start_lat, request.start_lon, request.end_lat, request.end_lon>>
       IN  IF \E i \in 1..4 : coords[i].kind = "missing"
           THEN Respond(ErrorResponse(400, "Missing coordinates")) /\ UNCHANGED preferences
           ELSE IF \E i \in 1..4 : coords[i].kind # "num"
           THEN Respond(ErrorResponse(400, "Invalid coordinates")) /\ UNCHANGED preferences
           ELSE IF request.safety_weight.kind = "text" \/ request.distance_weight.kind = "text"
           THEN Respond(ErrorResponse(500, "could not convert string to float"))
                /\ UNCHANGED preferences
           ELSE IF ~(/\ validate_coordinates(request.start_lat, request.start_lon)
                     /\ validate_coordinates(request.end_lat, request.end_lon))
           THEN Respond(ErrorResponse(400, "Coordinates outside Bangalore"))
                /\ preferences' = preferences
           ELSE /\ preferences' =
                      [prefer_main_roads |-> request.flags.prefer_main_roads,
                       prefer_well_lit |-> request.flags.prefer_well_lit,
                       prefer_populated |-> request.flags.prefer_populated,
                       safety_weight |-> WeightOf(request.safety_weight, 7),
                       distance_weight |-> WeightOf(request.distance_weight, 3)]
                /\ pc' = "direct"
                /\ UNCHANGED response
    /\ UNCHANGED <<peer, alone, sanity, scored, unblended, guard_input, verdict, guard_evaluated, sampling, training_file, loggers, endpoint, request, world, ml, provider, all_routes, route_hashes, wp_idx,
                   waypoint_count, direct_calls, waypoint_calls, failed_calls, current_time,
                   validated_routes>>

\* a variant that repeats a failed direct call, up to three calls
RetryDirectCall(raw, calls) ==
    IF raw = ProviderFailure /\ calls < 3 THEN "direct" ELSE "waypoints"

\* where the handler goes after the direct call: on to the loops,
\* whatever the call returned and however many were made
AfterDirectCall(raw, calls) == "waypoints"

\* the provider's routes for one trip t = <<start_lat, start_lon, end_lat, end_lon>>
RoutesFor(t, raw) == get_route_from_osrm(t[1], t[2], t[3], t[4], raw)

\* the request's own pool after a loop that ended with pool acc
WithPool(own, acc) == [own EXCEPT !.routes = acc.routes, !.hashes = acc.hashes]

\* Phase 1: the direct provider call and the loop over its alternatives
DirectPass ==
    /\ pc = "direct"
    /\ \E raw \in Answers(-1) :
          \E direct_routes \in {RoutesFor(CoordOf(request), raw)} :
          \E acc \in {DirectLoop(world, CoordOf(request), request.flags, direct_routes,
                                  [routes |-> all_routes, hashes |-> route_hashes])} :
              /\ all_routes' = acc.routes
              /\ route_hashes' = acc.hashes
              /\ last_raw' = raw
              /\ failed_calls' = failed_calls + (IF raw = ProviderFailure THEN 1 ELSE 0)
              /\ alone' = IF alone.routes = all_routes /\ alone.hashes = route_hashes
                          THEN WithPool(alone, acc)
                          ELSE WithPool(alone,
                                   DirectLoop(world, CoordOf(request), request.flags,
                                              direct_routes,
                                              [routes |-> alone.routes,
                                               hashes |-> alone.hashes]))
    /\ direct_calls' = direct_calls + 1
    /\ pc' = AfterDirectCall(last_raw', direct_calls')
    /\ UNCHANGED <<peer, sanity, scored, unblended, guard_input, verdict, guard_evaluated, sampling, training_file, loggers, endpoint, request, world, ml, provider, preferences, wp_idx, waypoint_count,
                   waypoint_calls, current_time, validated_routes, response>>

\* Phase 2: one iteration of the innermost waypoint loop
WaypointStep ==
    /\ pc = "waypoints"
    /\ wp_idx < NumWaypointSlots
    /\ waypoint_count < MaxWaypoints
    /\ \E t \in {CoordOf(request)} :
           IF ~CallableOf[t, wp_idx]
           THEN /\ last_raw' = NoCall
                /\ UNCHANGED <<all_routes, route_hashes, waypoint_count, waypoint_calls,
                               failed_calls, alone>>
           ELSE \E raw \in Answers(wp_idx) :
                   \E waypoint_routes \in {RoutesFor(t, raw)} :
                   \E acc \in {WaypointLoop(world, t, request.flags, waypoint_routes,
                                  [routes |-> all_routes, hashes |-> route_hashes,
                                   count |-> waypoint_count])} :
                       /\ all_routes' = acc.routes
                       /\ route_hashes' = acc.hashes
                       /\ waypoint_count' = acc.count
                       /\ waypoint_calls' = waypoint_calls + 1
                       /\ last_raw' = raw
                       /\ failed_calls' = failed_calls + (IF raw = ProviderFailure THEN 1 ELSE 0)
                       /\ alone' = IF /\ alone.routes = all_routes
                                      /\ alone.hashes = route_hashes
                                      /\ alone.count = waypoint_count
                                   THEN acc
                                   ELSE WaypointLoop(world, t, request.flags,
                                                     waypoint_routes, alone)
    /\ wp_idx' = wp_idx + 1
    /\ UNCHANGED <<peer, sanity, scored, unblended, guard_input, verdict, guard_evaluated, sampling, training_file, loggers, endpoint, request, world, ml, provider, pc, preferences, direct_calls,
                   current_time, validated_routes, response>>

\* a variant that annotates the fallback route like a curated one
FallbackDirectPlain(w, flags, id) ==
    Returned(Candidate(id, "direct", SafetyOf[w, flags, 0]), 1, "best", "none", << >>)

\* the route of the empty-pool fallback: direct_fallback[0], scored but not
\* validated
FallbackDirect(w, flags, id) ==
    LET safety == SafetyOf[w, flags, id]
        route == IF safety.ok THEN Candidate(id, "direct", safety)
                 ELSE [Candidate(id, "direct", SafetyOf[w, flags, 0])
                          EXCEPT !.safety_score = 5000, !.crime_density = 0,
                                 !.max_crime_exposure = 0]
    IN  Returned(route, 1, "direct", "caution",
                 <<<<"most_direct", 0>>, <<"limited_data", 0>>>>)

\* the end of candidate generation: an empty pool is answered at once
\* (app/routes.py tries the unvalidated direct route first)
FinishGeneration ==
    /\ pc = "waypoints"
    /\ wp_idx >= NumWaypointSlots \/ waypoint_count >= MaxWaypoints
    /\ IF Len(all_routes) > 0
       THEN /\ pc' = "score"
            /\ last_raw' = NoCall
            /\ UNCHANGED <<direct_calls, failed_calls, response>>
       ELSE IF endpoint = "app"
       THEN /\ Respond(ErrorResponse(404, "No valid routes found"))
            /\ last_raw' = NoCall
            /\ UNCHANGED <<direct_calls, failed_calls>>
       ELSE \E raw \in Answers(-1) :
               LET t == CoordOf(request)
                   direct_fallback == get_route_from_osrm(t[1], t[2], t[3], t[4], raw)
               IN  /\ direct_calls' = direct_calls + 1
                   /\ last_raw' = raw
                   /\ failed_calls' = failed_calls + (IF raw = ProviderFailure THEN 1 ELSE 0)
                   /\ IF Len(direct_fallback) > 0
                      THEN Respond(SuccessResponse(
                               <<FallbackDirect(world, request.flags, direct_fallback[1])>>,
                               1, TRUE))
                      ELSE Respond(ErrorResponse(404, "No valid routes found"))
    /\ UNCHANGED <<peer, alone, sanity, scored, unblended, guard_input, verdict, guard_evaluated, sampling, training_file, loggers, endpoint, request, world, ml, provider, preferences, all_routes, route_hashes,
                   wp_idx, waypoint_count, waypoint_calls, current_time, validated_routes>>

\* reasons of the all-guardrails-failed fallback route
FallbackReasons(route) ==
    <<<<"best_available", 0>>>>
    \o (IF route.crime_density > 0
        THEN <<<<"crime_density", (route.crime_density + 5) \div 10>>>> ELSE << >>)
    \o (IF route.main_road_percentage > 5000
        THEN <<<<"main_roads", (route.main_road_percentage + 50) \div 100>>>> ELSE << >>)

\* a variant that takes all_routes[-1]
FallbackLast(routes) ==
    Returned(routes[Len(routes)], 1, "direct", "caution", FallbackReasons(routes[Len(routes)]))

\* the route of the all-guardrails-failed fallback: all_routes[0]
FallbackBest(routes) == Returned(routes[1], 1, "direct", "caution", FallbackReasons(routes[1]))

\* the answer when no route passed the guardrails
AllRejected(ep, routes) ==
    IF ep = "app" THEN ErrorResponse(404, "No routes passed safety validation")
    ELSE IF Len(routes) > 0
    THEN SuccessResponse(<<FallbackBest(routes)>>, Len(routes), TRUE)
    ELSE ErrorResponse(404, "No routes passed safety validation")

\* Phases 3 and 4 and the final response in one piece, for the predictor m
Answer(ep, m, w, t, routes, prefs) ==
    LET sorted == SortDesc([i \in 1..Len(routes) |-> ScoreRoute(ep, m, routes[i], prefs)])
        validated == GuardrailLoop(w, t, sorted, << >>)
    IN  IF Len(validated) > 0
        THEN SuccessResponse(Curate(validated), Len(sorted), FALSE)
        ELSE AllRejected(ep, sorted)

\* Phase 3: datetime.now(), composite score and blend per route, then the sort
ScoreRoutes ==
    /\ pc = "score"
    /\ \E t \in Times : current_time' = t
    /\ \E m \in MLModes : ml' = m
    /\ all_routes' = SortDesc([i \in 1..Len(all_routes) |->
                                  ScoreRoute(endpoint, ml', all_routes[i], preferences)])
    /\ pc' = "guard"
    /\ last_raw' = NoCall
    /\ unblended' = Answer(endpoint, "off", world, current_time', all_routes, preferences)
    /\ training_file' =
          LogAll(training_file,
                 IF ml' = "off" THEN << >>
                 ELSE SelectSeq([i \in 1..Len(all_routes) |->
                                    IF predict_safety_score(ml', all_routes[i]).ok
                                    THEN all_routes[i].id ELSE -1],
                                LAMBDA sample : sample >= 0))
    /\ UNCHANGED <<peer, alone, sanity, scored, guard_input, verdict, guard_evaluated, sampling, loggers, endpoint, request, world, provider, preferences, route_hashes, wp_idx,
                   waypoint_count, direct_calls, waypoint_calls, failed_calls,
                   validated_routes, response>>

\* Phase 4: the guardrail loop, and the answer when nothing passed
ApplyGuardrails ==
    /\ pc = "guard"
    /\ \E validated \in {GuardrailLoop(world, current_time, all_routes, << >>)} :
           /\ validated_routes' = validated
           /\ guard_evaluated' = GuardrailEvaluations(world, current_time, all_routes, 0)
           /\ IF Len(validated) > 0
              THEN pc' = "curate" /\ UNCHANGED response
              ELSE Respond(AllRejected(endpoint, all_routes))
    /\ last_raw' = NoCall
    /\ UNCHANGED <<peer, alone, sanity, scored, unblended, guard_input, verdict, sampling, training_file, loggers, endpoint, request, world, ml, provider, preferences, all_routes, route_hashes,
                   wp_idx, waypoint_count, direct_calls, waypoint_calls, failed_calls,
                   current_time>>

\* truncation to 7, ranks and categories, and the success response
CurateResponse ==
    /\ pc = "curate"
    /\ Respond(SuccessResponse(Curate(validated_routes), Len(all_routes), FALSE))
    /\ last_raw' = NoCall
    /\ UNCHANGED <<peer, alone, sanity, scored, unblended, guard_input, verdict, guard_evaluated, sampling, training_file, loggers, endpoint, request, world, ml, provider, preferences, all_routes, route_hashes,
                   wp_idx, waypoint_count, direct_calls, waypoint_calls, failed_calls,
                   current_time, validated_routes>>

Next ==
    \/ Validate
    \/ DirectPass
    \/ WaypointStep
    \/ FinishGeneration
    \/ ScoreRoutes
    \/ ApplyGuardrails
    \/ CurateResponse

Spec == Init /\ [][Next]_vars

\* the steps the handler has left at most: every position is followed by a
\* later one, and the waypoint loops run NumWaypointSlots iterations
StepsLeft ==
    CASE pc = "request" -> NumWaypointSlots + 6
      [] pc = "direct" -> NumWaypointSlots + 5
      [] pc = "waypoints" -> (NumWaypointSlots - wp_idx) + 4
      [] pc = "score" -> 3
      [] pc = "guard" -> 2
      [] pc = "curate" -> 1
      [] OTHER -> 0

\* the same handler as app.py serves it
InitApp == InitWith("app")

SpecApp == InitApp /\ [][Next]_vars

--------------------------------------------------------------------------
(* apply_safety_guardrails called on its own, as app/test_runtime.py does *)

\* the polylines the guardrails are called with
GuardRouteIds == {0, 6, 15, 104}

GuardScores == {0, 4000, 10000}

\* seconds: a quarter of an hour, two hours, eighteen hours
GuardDurations == {900, 7200, 64800}

GuardInputs ==
    [id : GuardRouteIds, kind : {"pair", "leg"}, safety_score : GuardScores,
     duration : GuardDurations]

\* every hour of the day, on the hour and ten minutes before the next
AllTimes == {h * 60 + m : h \in 0..23, m \in {0, 50}}

InitGuard ==
    /\ Idle("guardrails")
    /\ request = DefaultTrip
    /\ world \in Worlds
    /\ provider = "free"
    /\ pc = "guard_idle"
    /\ guard_input \in GuardInputs
    /\ verdict = NoVerdict
    /\ training_file = NoFile
    /\ loggers = << >>
    /\ peer = NoPeer

\* one call of apply_safety_guardrails(route_data, safety_score, current_time,
\* crime_data, lighting_data, population_data)
GuardCall ==
    /\ pc = "guard_idle"
    /\ \E t \in AllTimes :
          LET points == GeomPoints(guard_input.id)
              g == apply_safety_guardrails(
                       [steps |-> IF guard_input.kind = "leg" THEN LegSteps(points)
                                  ELSE PairSteps(points),
                        duration |-> guard_input.duration],
                       guard_input.safety_score, t, world)
          IN  /\ current_time' = t
              /\ verdict' = g
              /\ pc' = IF g.raised THEN "guard_raised" ELSE "guard_returned"
    /\ UNCHANGED <<peer, alone, sanity, scored, unblended, guard_input, guard_evaluated, sampling, training_file, loggers, endpoint, request, world, ml, provider, preferences,
                   all_routes, route_hashes, wp_idx, waypoint_count, direct_calls,
                   waypoint_calls, failed_calls, last_raw, validated_routes, response>>

NextGuard == GuardCall

SpecGuard == InitGuard /\ [][NextGuard]_vars

--------------------------------------------------------------------------
(* Two requests in one process: while the request of the variables above  *)
(* is served, the handler runs Phase 1 and the first iteration of Phase 2 *)
(* for a second request on the same trip, with its own locals.            *)

PairRequests == {DefaultTrip, TripRequest(FlagsMain, Missing, Missing)}

PeerStart == [pc |-> "direct", all_routes |-> << >>, route_hashes |-> {}, seen |-> << >>]

InitPair ==
    /\ Idle("routes")
    /\ request \in PairRequests
    /\ world = 2
    /\ provider = "steady"
    /\ pc = "request"
    /\ guard_input = NoGuardInput
    /\ verdict = NoVerdict
    /\ training_file = NoFile
    /\ loggers = << >>
    /\ peer = PeerStart

\* a variant in which route_hashes is one set of the module
SharedHashes(own, other) == own \cup other

\* route_hashes of this request after a step of the other request: the set
\* is a local of the handler
OwnHashes(own, other) == own

\* Phase 1, then one iteration of Phase 2, of the other request
PeerStep ==
    /\ pc \in {"direct", "waypoints"}
    /\ peer.pc \in {"direct", "waypoints"}
    /\ \E t \in {CoordOf(DefaultTrip)} :
       \E routes \in {RoutesFor(t, WideAnswer(IF peer.pc = "direct" THEN -1 ELSE 0))} :
       \E acc \in {IF peer.pc = "direct"
                   THEN DirectLoop(world, t, FlagsNone, routes,
                                   [routes |-> peer.all_routes, hashes |-> peer.route_hashes])
                   ELSE WaypointLoop(world, t, FlagsNone, routes,
                                     [routes |-> peer.all_routes,
                                      hashes |-> peer.route_hashes, count |-> 0])} :
           /\ peer' = [pc |-> IF peer.pc = "direct" THEN "waypoints" ELSE "done",
                       all_routes |-> acc.routes,
                       route_hashes |-> acc.hashes,
                       seen |-> Append(peer.seen, pc)]
           /\ route_hashes' = OwnHashes(route_hashes, acc.hashes)
    /\ UNCHANGED <<alone, sanity, scored, unblended, guard_input, verdict, guard_evaluated, sampling, training_file, loggers, endpoint, request,
                   world, ml, provider, pc, preferences, all_routes, wp_idx, waypoint_count,
                   direct_calls, waypoint_calls, failed_calls, last_raw, current_time,
                   validated_routes, response>>

NextPair ==
    \/ Validate
    \/ DirectPass
    \/ WaypointStep
    \/ FinishGeneration
    \/ ScoreRoutes
    \/ ApplyGuardrails
    \/ CurateResponse
    \/ PeerStep

SpecPair == InitPair /\ [][NextPair]_vars

--------------------------------------------------------------------------
(* calculate_route_safety_comprehensive called directly, several times in *)
(* one process, with calls of apply_safety_guardrails in between.         *)

MaxScorerCalls == 3

ScorerRouteIds == {0, 6}

ScorerFlags == {FlagsNone, FlagsAll}

ScorerTimes == {0, 720}

ScorerOf ==
    [w \in InjectedWorlds, f \in ScorerFlags, id \in ScorerRouteIds |->
        calculate_route_safety_comprehensive(w, GeomPoints(id), f)]

InitScorer ==
    /\ Idle("scorer")
    /\ request = DefaultTrip
    /\ world \in InjectedWorlds
    /\ provider = "free"
    /\ pc = "scorer"
    /\ guard_input = NoGuardInput
    /\ verdict = NoVerdict
    /\ training_file = NoFile
    /\ loggers = << >>
    /\ peer = NoPeer

\* a variant whose result carries over the score the guardrails last adjusted
ScorerResultAfterGuard(id, flags) ==
    IF verdict = NoVerdict THEN ScorerOf[world, flags, id]
    ELSE [ScorerOf[world, flags, id] EXCEPT !.safety_score = verdict.adjusted_score]

\* what calculate_route_safety_comprehensive returns in the current process
ScorerResult(id, flags) == ScorerOf[world, flags, id]

\* one call of calculate_route_safety_comprehensive(route, preferences)
ScorerCall ==
    /\ pc = "scorer"
    /\ Len(scored) < MaxScorerCalls
    /\ \E id \in ScorerRouteIds, flags \in ScorerFlags :
          scored' = Append(scored, [id |-> id, preferences |-> flags,
                                    metrics |-> ScorerResult(id, flags)])
    /\ UNCHANGED <<peer, alone, sanity, unblended, guard_input, verdict, guard_evaluated, sampling, training_file, loggers, endpoint, request, world, ml, provider, pc,
                   preferences, all_routes, route_hashes, wp_idx, waypoint_count,
                   direct_calls, waypoint_calls, failed_calls, last_raw, current_time,
                   validated_routes, response>>

\* one call of apply_safety_guardrails on the route scored last
GuardBetween ==
    /\ pc = "scorer"
    /\ scored # << >>
    /\ verdict = NoVerdict
    /\ \E t \in ScorerTimes, kind \in {"pair", "leg"} :
          LET last == scored[Len(scored)]
              points == GeomPoints(last.id)
              input == [id |-> last.id, kind |-> kind,
                        safety_score |-> last.metrics.safety_score, duration |-> 900]
          IN  /\ guard_input' = input
              /\ current_time' = t
              /\ verdict' = apply_safety_guardrails(
                                [steps |-> IF kind = "leg" THEN LegSteps(points)
                                           ELSE PairSteps(points),
                                 duration |-> input.duration],
                                input.safety_score, t, world)
    /\ UNCHANGED <<peer, alone, sanity, scored, unblended, guard_evaluated, sampling, training_file, loggers, endpoint, request, world, ml, provider, pc, preferences,
                   all_routes, route_hashes, wp_idx, waypoint_count, direct_calls,
                   waypoint_calls, failed_calls, last_raw, validated_routes, response>>

NextScorer == ScorerCall \/ GuardBetween

SpecScorer == InitScorer /\ [][NextScorer]_vars

--------------------------------------------------------------------------
(* validate_route_connectivity and detect_route_backtracking called       *)
(* directly on one polyline for one trip.                                 *)

\* the corridor trip, its first 0.43 km, and a trip from a place to itself
DetourRequests ==
    {DefaultTrip,
     [DefaultTrip EXCEPT !.end_lon = Num(CorridorStartLon + 400)],
     [DefaultTrip EXCEPT !.end_lon = Num(CorridorStartLon)]}

InitDetour ==
    /\ Idle("validator")
    /\ request \in DetourRequests
    /\ world = 1
    /\ provider = "free"
    /\ pc = "detour_idle"
    /\ guard_input = NoGuardInput
    /\ verdict = NoVerdict
    /\ training_file = NoFile
    /\ loggers = << >>
    /\ peer = NoPeer

\* the two validators on one polyline of the provider
DetourCall ==
    /\ pc = "detour_idle"
    /\ \E id \in GeomIds :
          sanity' = [id |-> id,
                     connected |-> validate_route_connectivity(GeomPoints(id), MaxGapM),
                     efficient |-> detect_route_backtracking(
                                       GeomPoints(id),
                                       request.start_lat.val, request.start_lon.val,
                                       request.end_lat.val, request.end_lon.val)]
    /\ pc' = "detour_returned"
    /\ UNCHANGED <<peer, alone, scored, unblended, guard_input, verdict, guard_evaluated, sampling, training_file, loggers, endpoint, request, world, ml,
                   provider, preferences, all_routes, route_hashes, wp_idx, waypoint_count,
                   direct_calls, waypoint_calls, failed_calls, last_raw, current_time,
                   validated_routes, response>>

NextDetour == DetourCall

SpecDetour == InitDetour /\ [][NextDetour]_vars

--------------------------------------------------------------------------
(* Requests whose synthetic waypoints are not all worth a provider call:  *)
(* short trips, trips along the edge of the box, a trip to its own start. *)

WaypointRequests ==
    {DefaultTrip,
     [DefaultTrip EXCEPT !.end_lon = Num(CorridorStartLon)],
     [DefaultTrip EXCEPT !.end_lon = Num(ShortEndLon)],
     [DefaultTrip EXCEPT !.start_lat = Num(EdgeLat), !.end_lat = Num(EdgeLat),
                         !.end_lon = Num(ShortEndLon)],
     [DefaultTrip EXCEPT !.start_lat = Num(EdgeLat), !.end_lat = Num(EdgeLat)]}

InitWaypoints ==
    /\ Idle("routes")
    /\ request \in WaypointRequests
    /\ world \in PipelineWorlds
    /\ provider = "steady"
    /\ pc = "request"
    /\ guard_input = NoGuardInput
    /\ verdict = NoVerdict
    /\ training_file = NoFile
    /\ loggers = << >>
    /\ peer = NoPeer

SpecWaypoints == InitWaypoints /\ [][Next]_vars

--------------------------------------------------------------------------
(* FeatureLogger: calls of log_route_sample made by requests served at    *)
(* the same time, each call a thread of the server.                       *)

\* the number of calls in progress
NumLoggerCalls == 3

LoggerIds == 1..NumLoggerCalls

InitLogger ==
    /\ Idle("logger")
    /\ request = DefaultTrip
    /\ world = 1
    /\ provider = "free"
    /\ pc = "logging"
    /\ guard_input = NoGuardInput
    /\ verdict = NoVerdict
    /\ peer = NoPeer
    /\ training_file \in {NoFile, [exists |-> TRUE, lines |-> <<HeaderRow>>]}
    /\ loggers = [i \in LoggerIds |-> [pc |-> "exists", raised |-> FALSE]]

\* what a step of log_route_sample leaves alone
LoggerFrame ==
    UNCHANGED <<peer, alone, sanity, scored, unblended, guard_input, verdict,
                guard_evaluated, sampling, endpoint, request, world, ml, provider, pc,
                preferences, all_routes, route_hashes, wp_idx, waypoint_count,
                direct_calls, waypoint_calls, failed_calls, last_raw, current_time,
                validated_routes, response>>

\* if DATA_FILE.exists():
LogExists(i) ==
    /\ loggers[i].pc = "exists"
    /\ loggers' = [loggers EXCEPT ![i].pc = IF training_file.exists THEN "read"
                                            ELSE "create"]
    /\ UNCHANGED training_file
    /\ LoggerFrame

\* existing = pd.read_csv(DATA_FILE, nrows=0): raises EmptyDataError on a
\* file without a line, which the except clause of the function swallows
LogReadHeader(i) ==
    /\ loggers[i].pc = "read"
    /\ loggers' = [loggers EXCEPT ![i].pc = IF training_file.lines = << >> THEN "returned"
                                            ELSE "append"]
    /\ UNCHANGED training_file
    /\ LoggerFrame

\* df.to_csv(DATA_FILE, mode='a', header=False, index=False)
LogAppend(i) ==
    /\ loggers[i].pc = "append"
    /\ training_file' = AppendRow(training_file, i)
    /\ loggers' = [loggers EXCEPT ![i].pc = "returned"]
    /\ LoggerFrame

\* df.to_csv(DATA_FILE, mode='w', header=True, index=False): the open
LogCreate(i) ==
    /\ loggers[i].pc = "create"
    /\ training_file' = OpenTruncated
    /\ loggers' = [loggers EXCEPT ![i].pc = "write"]
    /\ LoggerFrame

\* the same to_csv: the write and the close
LogWrite(i) ==
    /\ loggers[i].pc = "write"
    /\ training_file' = WriteFromStart(training_file, i)
    /\ loggers' = [loggers EXCEPT ![i].pc = "returned"]
    /\ LoggerFrame

NextLogger ==
    \E i \in LoggerIds :
        \/ LogExists(i)
        \/ LogReadHeader(i)
        \/ LogAppend(i)
        \/ LogCreate(i)
        \/ LogWrite(i)

SpecLogger == InitLogger /\ [][NextLogger]_vars

--------------------------------------------------------------------------
(* detect_route_backtracking and calculate_route_safety_comprehensive     *)
(* called directly on polylines of every length up to MaxPoints.          *)

\* the longest polyline handed to the two functions
MaxPoints == 120

\* the corridor as n evenly spaced points
Dense(n) ==
    [i \in 1..n |-> <<CorridorLat, CorridorStartLon + (4000 * (i - 1)) \div (n - 1)>>]

InitSample ==
    /\ Idle("sampler")
    /\ request = DefaultTrip
    /\ world \in {2, 3}
    /\ provider = "free"
    /\ pc = "sample_idle"
    /\ guard_input = NoGuardInput
    /\ verdict = NoVerdict
    /\ training_file = NoFile
    /\ loggers = << >>
    /\ peer = NoPeer

\* detect_route_backtracking on a polyline of n points
SampleBacktracking ==
    /\ pc = "sample_idle"
    /\ \E n \in 2..MaxPoints :
          /\ sampling' = [points |-> n, function |-> "detect_route_backtracking",
                          visited |-> Cardinality(SampleIterations(n)),
                          segments |-> Len(SampleRange(n))]
          /\ sanity' = [id |-> 200 + n,
                        connected |-> validate_route_connectivity(Dense(n), MaxGapM),
                        efficient |-> detect_route_backtracking(
                                          Dense(n),
                                          request.start_lat.val, request.start_lon.val,
                                          request.end_lat.val, request.end_lon.val)]
    /\ pc' = "sample_returned"
    /\ UNCHANGED <<peer, alone, scored, unblended, guard_input, verdict, guard_evaluated, training_file,
                   loggers, endpoint, request, world, ml, provider, preferences,
                   all_routes, route_hashes, wp_idx, waypoint_count, direct_calls,
                   waypoint_calls, failed_calls, last_raw, current_time,
                   validated_routes, response>>

\* calculate_route_safety_comprehensive on a polyline of n points
SampleScorer ==
    /\ pc = "sample_idle"
    /\ \E n \in 2..MaxPoints :
          /\ sampling' = [points |-> n,
                          function |-> "calculate_route_safety_comprehensive",
                          visited |-> Len(SampledRoute(Dense(n))),
                          segments |-> 0]
          /\ scored' = <<[id |-> 200 + n, preferences |-> FlagsNone,
                          metrics |-> calculate_route_safety_comprehensive(
                                          world, Dense(n), FlagsNone)]>>
    /\ pc' = "sample_returned"
    /\ UNCHANGED <<peer, alone, sanity, unblended, guard_input, verdict, guard_evaluated, training_file,
                   loggers, endpoint, request, world, ml, provider, preferences,
                   all_routes, route_hashes, wp_idx, waypoint_count, direct_calls,
                   waypoint_calls, failed_calls, last_raw, current_time,
                   validated_routes, response>>

NextSample == SampleBacktracking \/ SampleScorer

SpecSample == InitSample /\ [][NextSample]_vars

--------------------------------------------------------------------------
(* Properties *)

\* all four coordinates are numbers inside the service bounding box
CoordsInBox(req) ==
    /\ \A f \in {req.start_lat, req.start_lon, req.end_lat, req.end_lon} : f.kind = "num"
    /\ \A f \in {req.start_lat, req.end_lat} : BoundsMinLat <= f.val /\ f.val <= BoundsMaxLat
    /\ \A f \in {req.start_lon, req.end_lon} : BoundsMinLon <= f.val /\ f.val <= BoundsMaxLon

ProviderCalls == direct_calls + waypoint_calls

\* C1: every success response to a request with in-box coordinates, fallback
\* responses included, holds at most 7 routes, each with safety_score in
\* [0, 100]
C1_AtMostSevenInRange ==
    (response.success /\ CoordsInBox(request)) =>
        /\ Len(response.routes) <= 7
        /\ \A i \in 1..Len(response.routes) :
              /\ 0 <= response.routes[i].safety_score
              /\ response.routes[i].safety_score <= 10000

\* more than 7 routes passed the guardrails and 7 were returned
C1_Witness ==
    /\ pc = "done"
    /\ response.success
    /\ Len(validated_routes) > 7
    /\ Len(response.routes) = 7

\* C2: at every point of a request no two entries of all_routes have the
\* same fingerprint, and no two returned routes have
C2_UniqueFingerprints ==
    /\ \A i, j \in 1..Len(all_routes) :
          i # j => HashOf[all_routes[i].id]
                   # HashOf[all_routes[j].id]
    /\ \A i, j \in 1..Len(response.routes) :
          i # j => HashOf[response.routes[i].id]
                   # HashOf[response.routes[j].id]

\* the provider has just offered a valid polyline of another shape with the
\* fingerprint of a pool entry, and the pool did not take it
C2_Witness ==
    /\ pc = "waypoints"
    /\ last_raw # NoCall /\ last_raw # ProviderFailure
    /\ \E k \in 1..Len(last_raw) : \E i \in 1..Len(all_routes) :
          /\ last_raw[k] # all_routes[i].id
          /\ PassesValidation(CoordOf(request), last_raw[k])
          /\ calculate_route_hash(GeomPoints(last_raw[k]))
             = HashOf[all_routes[i].id]
          /\ \A j \in 1..Len(all_routes) : all_routes[j].id # last_raw[k]

C4_RejectedBeforeProvider ==
    ~CoordsInBox(request) =>
        /\ ProviderCalls = 0
        /\ pc \in {"request", "done"}
        /\ pc = "done" => (~response.success /\ response.status >= 400)

\* a request with a longitude just east of the box was rejected
C4_Witness ==
    /\ pc = "done"
    /\ request.end_lon = Num(OutsideLon)
    /\ request.safety_weight = Missing
    /\ response.status = 400
    /\ ProviderCalls = 0

\* C5: a provider call that fails or returns no routes leaves the pool as
\* it was, generation goes on with the next waypoint, and the request is
\* never ended by it other than as the unavailable fallback of an empty pool
C5_FailedCallSkipped ==
    [][(last_raw' = ProviderFailure \/ last_raw' = << >>) =>
          /\ all_routes' = all_routes
          /\ route_hashes' = route_hashes
          /\ response'.status # 500
          /\ pc' \in {"waypoints", "done"}
          /\ pc = "direct" => pc' = "waypoints"
          /\ (pc = "waypoints" /\ pc' = "waypoints") => wp_idx' = wp_idx + 1
          /\ pc' = "done" => (all_routes = << >> /\ response'.status = 404)]_vars

\* a waypoint call has just failed, the pool holds routes and loop
\* iterations remain
C5_Witness ==
    /\ pc = "waypoints"
    /\ last_raw = ProviderFailure
    /\ Len(all_routes) > 0
    /\ wp_idx > 0 /\ wp_idx < NumWaypointSlots

\* C6: when generation ends with an empty pool, a direct geometry from the
\* provider gives a success with exactly one route (rank 1, category
\* 'direct', a caution warning) and is_fallback; 'No valid routes found' is
\* returned only when that geometry is unavailable
C6_EmptyPoolFallback ==
    [][(pc = "waypoints" /\ pc' = "done") =>
          LET t == CoordOf(request)
              usable == {k \in 1..Len(last_raw') :
                            /\ last_raw' # ProviderFailure
                            /\ Len(GeomPoints(last_raw'[k])) >= 2
                            /\ EndpointsMatch(t[1], t[2], t[3], t[4], GeomPoints(last_raw'[k]))}
          IN  /\ all_routes = << >>
              /\ direct_calls' = direct_calls + 1
              /\ IF usable # {}
                 THEN /\ response'.success
                      /\ response'.is_fallback
                      /\ Len(response'.routes) = 1
                      /\ response'.routes[1].rank = 1
                      /\ response'.routes[1].category = "direct"
                      /\ response'.routes[1].warning = "caution"
                      /\ \E k \in usable : response'.routes[1].id = last_raw'[k]
                 ELSE /\ ~response'.success
                      /\ response'.status = 404
                      /\ response'.error = "No valid routes found"]_vars

\* an empty pool answered with a polyline that fails validation
C6_Witness ==
    /\ pc = "done"
    /\ all_routes = << >>
    /\ response.success /\ response.is_fallback
    /\ ~PassesValidation(CoordOf(request), response.routes[1].id)

\* C7: when the pool is non-empty and no candidate passes the guardrails,
\* the response is a success with exactly one route, the candidate with the
\* highest composite score, with is_fallback and a caution warning; no
\* error is returned while the pool is non-empty
C7_AllFailedFallback ==
    (pc = "done" /\ Len(all_routes) > 0) =>
        /\ response.success
        /\ validated_routes = << >> =>
              /\ response.is_fallback
              /\ Len(response.routes) = 1
              /\ response.routes[1].rank = 1
              /\ response.routes[1].warning = "caution"
              /\ \E i \in 1..Len(all_routes) :
                    /\ all_routes[i].id = response.routes[1].id
                    /\ \A j \in 1..Len(all_routes) :
                          all_routes[j].composite_score <= all_routes[i].composite_score

\* several candidates of different composite scores, all rejected
C7_Witness ==
    /\ pc = "done"
    /\ response.is_fallback
    /\ Len(all_routes) >= 3
    /\ all_routes[1].composite_score > all_routes[Len(all_routes)].composite_score

\* C8: in app.py too, a request whose generation yields nothing, or whose
\* candidates all fail the guardrails, is answered with a single route with
\* is_fallback and a caution warning, not with an error
C8_AppFallback ==
    (endpoint = "app" /\ pc = "done" /\ direct_calls > 0 /\ validated_routes = << >>) =>
        /\ response.success
        /\ response.is_fallback
        /\ Len(response.routes) = 1
        /\ response.routes[1].warning = "caution"

C10_TwoOutcomes ==
    (pc = "done" /\ CoordsInBox(request)) =>
        \/ /\ response.success
           /\ Len(response.routes) >= 1
           /\ \A i \in 1..Len(response.routes) :
                 /\ response.routes[i].rank = i
                 /\ response.routes[i].category
                       \in {"best", "safest", "fastest", "main_roads", "balanced", "direct"}
                 /\ response.routes[i].safety_score \in 0..10000
        \/ /\ ~response.success
           /\ response.status = 404
           /\ response.error \in {"No valid routes found", "No routes passed safety validation"}

\* a response without the safety_score of its routes
SansScores(r) ==
    [status |-> r.status, success |-> r.success, error |-> r.error,
     total_analyzed |-> r.total_analyzed, is_fallback |-> r.is_fallback,
     routes |-> [i \in 1..Len(r.routes) |->
                   [id |-> r.routes[i].id, type |-> r.routes[i].type,
                    rank |-> r.routes[i].rank, category |-> r.routes[i].category,
                    warning |-> r.routes[i].warning, reasons |-> r.routes[i].reasons,
                    distance_km |-> r.routes[i].distance_km,
                    crime_density |-> r.routes[i].crime_density,
                    max_crime_exposure |-> r.routes[i].max_crime_exposure,
                    main_road_percentage |-> r.routes[i].main_road_percentage]]]

\* C11: the answer to a request served with the predictor and the answer
\* to the same request (same provider answers, tables and clock) served
\* without it hold the same routes in the same order with the same ranks,
\* categories, reasons, warnings, total_analyzed and is_fallback; a request
\* answered before Phase 3 never consulted the predictor
C11_MLOnlyChangesScores ==
    pc = "done" =>
        IF unblended.status # 0
        THEN SansScores(response) = SansScores(unblended)
        ELSE ml = "off"

\* several routes returned, one of them with a blended score that differs
\* from the score it has without the predictor
C11_Witness ==
    /\ pc = "done"
    /\ ml \in {"heuristic", "low", "high"}
    /\ response.success
    /\ Len(response.routes) >= 2
    /\ \E i \in 1..Len(response.routes) :
          response.routes[i].safety_score # unblended.routes[i].safety_score

\* the largest distance between two consecutive points of a polyline
LargestGap(route_points) ==
    LET gaps == {haversine_distance(route_points[i][1], route_points[i][2],
                                    route_points[i + 1][1], route_points[i + 1][2]) :
                    i \in 1..(Len(route_points) - 1)}
    IN  IF gaps = {} THEN 0 ELSE CHOOSE g \in gaps : \A h \in gaps : h <= g

\* the largest gap of every polyline the provider can return
GapOf == [id \in GeomIds |-> LargestGap(GeomPoints(id))]

\* C12: no route of the candidate pool has fewer than two points or two
\* consecutive points more than 0.5 km apart
C12_PoolConnected ==
    \A i \in 1..Len(all_routes) :
        /\ Len(GeomPoints(all_routes[i].id)) >= 2
        /\ GapOf[all_routes[i].id] <= MaxGapM

\* the provider has just offered a polyline with a gap next to a sound one,
\* and the pool holds a route
C12_Witness ==
    /\ pc = "waypoints"
    /\ \E k \in 1..Len(last_raw) :
          last_raw[k] \in GeomIds /\ GapOf[last_raw[k]] > MaxGapM
    /\ Len(all_routes) >= 1

\* world h records at least as many incidents as world w at each place, and
\* more at one of them
Heavier(w, h) ==
    /\ h \in InjectedWorlds
    /\ InjectedFirst(h) >= InjectedFirst(w)
    /\ InjectedSecond(h) >= InjectedSecond(w)
    /\ h # w

\* the safety_score of the route of the call made last, in world h
ScoreIn(h) ==
    ScorerOf[h, scored[Len(scored)].preferences, scored[Len(scored)].id].safety_score

\* C13 as stated: with more crime at the sampled points, and the geometry,
\* preferences, lighting and population unchanged, the safety_score is
\* strictly lower (stated of the call made last; every call is the last
\* one in some state)
C13_StrictlyLower ==
    scored # << >> =>
        \A h \in InjectedWorlds :
            Heavier(world, h) => ScoreIn(h) < scored[Len(scored)].metrics.safety_score

\* C13, amended: with more crime the safety_score is never higher, and it
\* is strictly lower when the score with more crime lies strictly between
\* 0 and 100 and the average-crime penalty is below its cap of 40
C13_NeverHigher ==
    scored # << >> =>
        \A h \in InjectedWorlds :
            Heavier(world, h) =>
                LET more == ScorerOf[h, scored[Len(scored)].preferences,
                                     scored[Len(scored)].id]
                    less == scored[Len(scored)].metrics
                IN  /\ more.safety_score <= less.safety_score
                    /\ (/\ more.safety_score > 0
                        /\ more.safety_score < 10000
                        /\ Pow12x5(more.crime_density) < 4000)
                       => more.safety_score < less.safety_score

\* a call whose score falls strictly with more crime while it is between
\* 0 and 100 and the average-crime penalty is below its cap, and stays where
\* it is with still more crime
C13_Witness ==
    /\ scored # << >>
    /\ \E h, k, m \in InjectedWorlds :
          /\ Heavier(world, h)
          /\ Heavier(h, k)
          /\ Heavier(k, m)
          /\ ScoreIn(h) < scored[Len(scored)].metrics.safety_score
          /\ ScoreIn(h) > 0
          /\ ScoreIn(h) < 10000
          /\ Pow12x5(ScorerOf[h, scored[Len(scored)].preferences,
                              scored[Len(scored)].id].crime_density) < 4000
          /\ ScoreIn(m) = ScoreIn(k)

C15_MainRoadBonus ==
    (pc = "guard" /\ preferences.prefer_main_roads /\ ml \in {"off", "raises"}) =>
        \A i \in 1..Len(all_routes) :
            all_routes[i].composite_score
                = calculate_composite_score(endpoint, all_routes[i],
                                            [preferences EXCEPT !.prefer_main_roads = FALSE])
                  + all_routes[i].main_road_percentage * 35
                  + (IF all_routes[i].main_road_percentage > 7000 THEN 150000 ELSE 0)

\* C16: a call of apply_safety_guardrails whose steps are plain [lat, lon]
\* pairs, with a score in [0, 100], returns (it does not raise) and its
\* adjusted_score is in [0, 100]
C16_PairStepsReturn ==
    (pc \in {"guard_returned", "guard_raised"} /\ guard_input.kind = "pair") =>
        /\ pc = "guard_returned"
        /\ ~verdict.raised
        /\ verdict.adjusted_score >= 0
        /\ verdict.adjusted_score <= 10000

\* a call with pair steps along the corridor, the top score and tables in
\* which a route with located steps meets the missing population column
C16_Witness ==
    /\ pc = "guard_returned"
    /\ guard_input.kind = "pair"
    /\ guard_input.safety_score = 10000
    /\ guard_input.id = 0
    /\ ~HasPopulationColumn(world)
    /\ population_data(world) # {}

\* the hour at which a route that starts now ends
EndHour == ((current_time * 60 + guard_input.duration) \div 3600) % 24

\* C18: the time factor, read off a call with pair steps and score 100, is
\* 0.5 when the start hour is in [23, 5), whatever the end hour; otherwise
\* 0.8 for a start in [5, 7) and 1.0 for a later start, times 0.8 exactly
\* when the end hour is in [23, 5); and a route that starts outside
\* [23, 5) is never made invalid
C18_TimeFactor ==
    (pc = "guard_returned" /\ guard_input.kind = "pair"
                           /\ guard_input.safety_score = 10000) =>
        LET h == HourOf(current_time)
            late(x) == x >= 23 \/ x < 5
        IN  /\ verdict.adjusted_score =
                  IF late(h) THEN 5000
                  ELSE (IF h >= 5 /\ h < 7 THEN 80 ELSE 100)
                       * (IF late(EndHour) THEN 80 ELSE 100)
            /\ ~late(h) => verdict.is_valid

\* an early-morning start of a route that ends in the late night
C18_Witness ==
    /\ pc = "guard_returned"
    /\ guard_input.kind = "pair"
    /\ guard_input.safety_score = 10000
    /\ HourOf(current_time) \in {5, 6}
    /\ EndHour >= 23
    /\ verdict.adjusted_score = 6400
    /\ verdict.is_valid

\* whether a polyline has a point with more than 20 incidents inside the
\* 0.5 km box (0.5 / 111 degree on each side)
HasHotspot(w, id) ==
    \E j \in 1..Len(GeomPoints(id)) :
        SumOver(Nearby(crime_data(w), GeomPoints(id)[j][1], GeomPoints(id)[j][2], 451), 3) > 20

\* C19: every route that passed the guardrail step and has a point with
\* more than 20 incidents inside the 0.5 km box carries a crime-hotspot
\* warning and a safety_score of at most 0.7 times the score it had before
\* the step
C19_HotspotPenalised ==
    pc = "curate" =>
        \A i \in 1..Len(validated_routes) :
            HasHotspot(world, validated_routes[i].id) =>
                /\ \E k \in 1..Len(validated_routes[i].guardrail_warnings) :
                      validated_routes[i].guardrail_warnings[k] = "crime_hotspot"
                /\ \A j \in 1..Len(all_routes) :
                      all_routes[j].id = validated_routes[i].id =>
                          validated_routes[i].safety_score
                              <= (all_routes[j].safety_score * 7) \div 10

\* the direct distance of the trip of the request, in metres
DirectDistance ==
    haversine_distance(request.start_lat.val, request.start_lon.val,
                       request.end_lat.val, request.end_lon.val)

\* C20: detect_route_backtracking rejects every polyline whose length is
\* more than 1.3 times the direct distance of a trip of at least 0.1 km,
\* however many points it has, and accepts every polyline when the direct
\* distance is below 0.1 km
C20_DetourRejected ==
    pc = "detour_returned" =>
        /\ (/\ DirectDistance >= 100
            /\ 10 * PathLength(GeomPoints(sanity.id)) > 13 * DirectDistance)
           => ~sanity.efficient
        /\ DirectDistance < 100 => sanity.efficient

C21_AtMostTwentySteps ==
    (/\ pc = "sample_returned"
     /\ sampling.function = "detect_route_backtracking"
     /\ sampling.points >= 5)
    => /\ sampling.visited <= 20
       /\ sampling.segments <= 20

\* C22: for a polyline of n >= 2 points calculate_route_safety_comprehensive
\* queries each dataset at no more than 50 sampled points
C22_AtMostFiftySamples ==
    (/\ pc = "sample_returned"
     /\ sampling.function = "calculate_route_safety_comprehensive"
     /\ sampling.points >= 2)
    => /\ scored[1].metrics.ok
       /\ sampling.visited <= 50

\* the positions of the sorted pool whose candidate the guardrails accept
PassingPositions ==
    {i \in 1..Len(all_routes) :
        apply_safety_guardrails(
            [steps |-> PairSteps(GeomPoints(all_routes[i].id)),
             duration |-> all_routes[i].duration_min],
            all_routes[i].safety_score, current_time, world).is_valid}

\* the position of the r-th accepted candidate
PassingAt(r) ==
    CHOOSE i \in PassingPositions : Cardinality({j \in PassingPositions : j <= i}) = r

\* C23: in a non-fallback response the ranks are 1..k with k <= 7, the
\* composite score does not increase with the rank, the returned routes are
\* the first k accepted candidates of the pool sorted by composite score
\* descending, and the guardrails are called on the sorted pool up to the
\* 20th accepted candidate and on none after it
C23_FirstPassingInOrder ==
    (pc = "done" /\ response.success /\ ~response.is_fallback) =>
        LET k == Len(response.routes)
            passing == Cardinality(PassingPositions)
        IN  /\ k = Min(MaxFinalRoutes, passing)
            /\ k >= 1
            /\ \A i \in 1..(Len(all_routes) - 1) :
                  all_routes[i].composite_score >= all_routes[i + 1].composite_score
            /\ \A r \in 1..k :
                  /\ response.routes[r].rank = r
                  /\ response.routes[r].id = all_routes[PassingAt(r)].id
                  /\ validated_routes[r].id = response.routes[r].id
                  /\ r < k => validated_routes[r].composite_score
                                  >= validated_routes[r + 1].composite_score
            /\ Len(validated_routes) <= GuardrailStop
            /\ guard_evaluated = IF passing >= GuardrailStop THEN PassingAt(GuardrailStop)
                                 ELSE Len(all_routes)

\* seven routes returned with different composite scores out of a pool that
\* holds candidates after the 20th accepted one
C23_Witness ==
    /\ pc = "done" /\ response.success /\ ~response.is_fallback
    /\ Len(response.routes) = MaxFinalRoutes
    /\ guard_evaluated = GuardrailStop
    /\ Len(all_routes) > guard_evaluated
    /\ validated_routes[1].composite_score > validated_routes[MaxFinalRoutes].composite_score

\* the categories of the routes of the response
CategoriesReturned == {response.routes[r].category : r \in 1..Len(response.routes)}

\* C24: in a non-fallback response rank 1 is "best" and every other route
\* has the first category that applies of "safest" (crime_density <= 1.5
\* and max_crime_exposure <= 3), "fastest" (distance_km <= 1.05 x the
\* shortest of the returned routes), "main_roads" (main_road_percentage >=
\* 70) and "balanced"; exactly one route is "best", and "direct" occurs
\* only in a response flagged is_fallback
C24_OneCategoryByPriority ==
    (pc = "done" /\ response.success) =>
        LET routes == response.routes
            k == Len(routes)
        IN  /\ "direct" \in CategoriesReturned => response.is_fallback
            /\ ~response.is_fallback =>
                  /\ Cardinality({r \in 1..k : routes[r].category = "best"}) = 1
                  /\ \A r \in 1..k :
                        LET route == routes[r]
                            safe == /\ route.crime_density <= 150
                                    /\ route.max_crime_exposure <= 300
                            fast == \A j \in 1..k :
                                       100 * route.distance_km <= 105 * routes[j].distance_km
                            main == route.main_road_percentage >= 7000
                        IN  /\ route.category = "best" <=> route.rank = 1
                            /\ route.category = "safest" <=> (route.rank # 1 /\ safe)
                            /\ route.category = "fastest"
                                  <=> (route.rank # 1 /\ ~safe /\ fast)
                            /\ route.category = "main_roads"
                                  <=> (route.rank # 1 /\ ~safe /\ ~fast /\ main)
                            /\ route.category = "balanced"
                                  <=> (route.rank # 1 /\ ~safe /\ ~fast /\ ~main)

\* a non-fallback response in which the five categories occur, one of its
\* routes being both low in crime and within 5% of the shortest
C24_Witness ==
    /\ pc = "done" /\ response.success /\ ~response.is_fallback
    /\ CategoriesReturned = {"best", "safest", "fastest", "main_roads", "balanced"}
    /\ \E r \in 2..Len(response.routes) :
          /\ response.routes[r].category = "safest"
          /\ 100 * response.routes[r].distance_km <= 105 * response.routes[1].distance_km

\* the rule-based score of a candidate of the pool
RuleScore(route) == SafetyOf[world, request.flags, route.id].safety_score

\* C25: when the predictor is available, every candidate enters Phase 4
\* with 0.75 x its rule-based score + 0.25 x a prediction within [0, 100],
\* or with its rule-based score when its prediction failed, whatever
\* happened to the other candidates; the guardrails receive that score
C25_BlendBeforeGuardrails ==
    /\ (pc = "guard" /\ ml # "off") =>
          \A i \in 1..Len(all_routes) :
              LET route == all_routes[i]
                  rule == RuleScore(route)
                  fails == \/ ml = "raises"
                           \/ ml = "flaky" /\ route.crime_density > 100
              IN  /\ fails => route.safety_score = rule
                  /\ ~fails =>
                        /\ 100 * route.safety_score <= 75 * rule + 25 * 10000
                        /\ 100 * route.safety_score > 75 * rule - 100
                  /\ ml = "low" => route.safety_score = (75 * rule) \div 100
                  /\ (ml = "high" \/ (ml = "flaky" /\ ~fails)) =>
                        route.safety_score = (75 * rule + 250000) \div 100
    /\ (pc \in {"curate", "done"} /\ ml # "off") =>
          \A r \in 1..Len(validated_routes) :
              \E i \in 1..Len(all_routes) :
                  /\ all_routes[i].id = validated_routes[r].id
                  /\ validated_routes[r].safety_score =
                        apply_safety_guardrails(
                            [steps |-> PairSteps(GeomPoints(all_routes[i].id)),
                             duration |-> all_routes[i].duration_min],
                            all_routes[i].safety_score, current_time,
                            world).adjusted_score

\* a pool in Phase 4 of which one candidate kept its rule-based score after
\* its prediction failed and another one carries a blend that differs from
\* its rule-based score
C25_Witness ==
    /\ pc = "curate" /\ ml = "flaky"
    /\ \E i, j \in 1..Len(all_routes) :
          /\ all_routes[i].crime_density > 100
          /\ all_routes[i].safety_score = RuleScore(all_routes[i])
          /\ all_routes[j].crime_density <= 100
          /\ all_routes[j].safety_score # RuleScore(all_routes[j])
    /\ \E r \in 1..Len(validated_routes) :
          validated_routes[r].safety_score # RuleScore(validated_routes[r])

\* the synthetic waypoint of the iteration the waypoint pass is at
CurrentWaypoint ==
    LET t == CoordOf(request) IN Waypoint(t[1], t[2], t[3], t[4], wp_idx)

\* the detour through the current waypoint is at most 1.8 x the direct
\* distance, and the direct distance is not 0
WithinDetour ==
    LET t == CoordOf(request)
        wp == CurrentWaypoint
    IN  /\ haversine_distance(t[1], t[2], t[3], t[4]) > 0
        /\ 10 * (haversine_distance(t[1], t[2], wp[1], wp[2])
                 + haversine_distance(wp[1], wp[2], t[3], t[4]))
              <= 18 * haversine_distance(t[1], t[2], t[3], t[4])

\* C26: a step of the waypoint pass issues a provider call only for a
\* waypoint inside the service bounding box whose detour ratio is at most
\* 1.8, and never when the trip ends where it starts
C26_NoCallForFarWaypoint ==
    [][waypoint_calls' # waypoint_calls =>
          /\ pc = "waypoints"
          /\ waypoint_calls' = waypoint_calls + 1
          /\ BoundsMinLat <= CurrentWaypoint[1] /\ CurrentWaypoint[1] <= BoundsMaxLat
          /\ BoundsMinLon <= CurrentWaypoint[2] /\ CurrentWaypoint[2] <= BoundsMaxLon
          /\ WithinDetour
          /\ <<request.start_lat, request.start_lon>>
                # <<request.end_lat, request.end_lon>>]_vars

\* the waypoint pass of a short trip along the edge of the box is over:
\* calls were issued for some waypoints and skipped for the others
C26_Witness ==
    /\ pc = "waypoints"
    /\ wp_idx = NumWaypointSlots
    /\ request.start_lat = Num(EdgeLat)
    /\ request.end_lon = Num(ShortEndLon)
    /\ waypoint_calls > 0
    /\ waypoint_calls < NumWaypointSlots \div 2

\* C27: once Phase 4 has run, either every candidate of the pool was
\* accepted by the guardrails or every candidate was rejected, and the
\* candidates were all rejected, and the all-guardrails-failed fallback
\* answered, exactly when the clock read an hour in [0, 3)
C27_AllOrNothing ==
    (pc \in {"curate", "done"} /\ Len(all_routes) > 0) =>
        LET early == HourOf(current_time) < 3
        IN  /\ PassingPositions \in {{}, 1..Len(all_routes)}
            /\ Len(validated_routes) \in {0, Min(GuardrailStop, Len(all_routes))}
            /\ validated_routes = << >> <=> early
            /\ pc = "done" =>
                  /\ response.success
                  /\ response.is_fallback <=> early
                  /\ response.is_fallback =>
                        /\ Len(response.routes) = 1
                        /\ response.routes[1].id = all_routes[1].id

\* at 02:50 a pool of several candidates with different rule-based scores
\* was rejected as a whole and the fallback answered
C27_Witness ==
    /\ pc = "done" /\ response.success /\ response.is_fallback
    /\ current_time = 170
    /\ Len(all_routes) >= 3
    /\ validated_routes = << >>
    /\ \E i, j \in 1..Len(all_routes) :
          RuleScore(all_routes[i]) < RuleScore(all_routes[j])

\* the score a returned route had when Phase 4 began (rule-based or blended)
PreGuardrailScore(returned) ==
    LET i == CHOOSE i \in 1..Len(all_routes) : all_routes[i].id = returned.id
    IN  all_routes[i].safety_score

\* the clock of the request read an hour in [23, 5)
LateNight == HourOf(current_time) >= 23 \/ HourOf(current_time) < 5

\* C28: when the request is served at an hour in [23, 5), every route of
\* the response, the route of the all-guardrails-failed fallback included,
\* has a safety_score of at most half its score before the guardrails
C28_LateNightHalved ==
    (pc = "done" /\ response.success /\ Len(all_routes) > 0 /\ LateNight) =>
        \A r \in 1..Len(response.routes) :
            2 * response.routes[r].safety_score <= PreGuardrailScore(response.routes[r])

\* C29: with prefer_main_roads set, every route of a non-fallback response
\* reports a main_road_percentage of at least 40, from whichever pass it
\* came
C29_MainRoadFloor ==
    (/\ pc = "done" /\ response.success /\ ~response.is_fallback
     /\ request.flags.prefer_main_roads)
    => \A r \in 1..Len(response.routes) :
           response.routes[r].main_road_percentage >= 4000

\* every call of log_route_sample has returned
LoggingOver == pc = "logging" /\ \A i \in LoggerIds : loggers[i].pc = "returned"

\* C30: once every concurrent call of log_route_sample has returned, under
\* every interleaving and also when the file was absent at the start, the
\* training file is one header row followed by one data row per call, and
\* no call raised
C30_OneRowPerCall ==
    LoggingOver =>
        /\ training_file.exists
        /\ Len(training_file.lines) = 1 + NumLoggerCalls
        /\ training_file.lines[1] = HeaderRow
        /\ \A k \in 2..Len(training_file.lines) : training_file.lines[k] # HeaderRow
        /\ \A i \in LoggerIds :
              Cardinality({k \in 1..Len(training_file.lines) :
                              training_file.lines[k] = DataRow(i)}) = 1
        /\ \A i \in LoggerIds : ~loggers[i].raised

====
